---- MODULE Spec2Model ----
(***************************************************************************)
(* Model of fcp_core: the cursor-based EventLog (event_log.py) with        *)
(* undo/redo and named checkpoints, and the SessionDispatcher (session.py) *)
(* that owns one EventLog, the current model and the remembered file path. *)
(*                                                                         *)
(* Spec is the EventLog driven directly by its caller; SpecSession is the  *)
(* dispatcher driven by session commands, with an adapter that logs one    *)
(* event per mutation and hooks that may raise.                            *)
(*                                                                         *)
(* State of one EventLog: events (list of domain events and checkpoint     *)
(* sentinels), cursor, checkpoints (name -> position).  Every public       *)
(* method is one action; loops are RECURSIVE operators that compute what   *)
(* the Python loop computes, including an IndexError when a slot outside   *)
(* the list would be read.                                                 *)
(*                                                                         *)
(* History variables (not program state): last records the most recent     *)
(* call with its arguments, result and pre-state; prev is the undo called  *)
(* directly before a redo whose count is the undo's count or the number of *)
(* events the undo returned; discarded is the set of                       *)
(* events dropped by truncation; marked[n] is the applied prefix at the    *)
(* latest checkpoint(n) while n is in the map; clean[n] says that only     *)
(* appends, checkpoints and recent() followed it, and since[n] lists the   *)
(* domain events appended meanwhile.                                       *)
(***************************************************************************)
EXTENDS Integers, Sequences, FiniteSets, TLC

VARIABLES events, cursor, checkpoints, nextId, last, prev, discarded, marked, since, clean

\* SessionDispatcher: _model, _file_path; hookCalls lists the hook and
\* callback calls of the latest dispatch, sess records that dispatch, broken
\* says that reverse_event or replay_event raised since the model was created,
\* snapshot[n] is the model's data when checkpoint n was last dispatched
VARIABLES model, file_path, hookCalls, sess, broken, snapshot

\* the hooks object the dispatcher was built with: the "mock" hooks of the
\* tests, or the "bridge" that create_fcp_server wraps around a domain adapter
VARIABLE hooks

\* the latest call of the batch tool execute_ops: its ops, whether the adapter
\* gave a snapshot, the model and the log it found, the text it answered, how
\* many ops were parsed and dispatched and the snapshots restore_snapshot was
\* applied with
VARIABLE batch

\* a call of one of the pure functions of tokenizer.py and parsed_op.py: pin is
\* the function with its arguments, pout what it returned (or raised)
VARIABLES pin, pout

\* history variables of the EventLog calls
logHist == <<last, prev, discarded, marked, since, clean>>

parseVars == <<pin, pout>>

sessVars == <<model, file_path, hookCalls, sess, broken, snapshot, hooks, batch, parseVars>>

vars == <<events, cursor, checkpoints, nextId, last, prev, discarded, marked, since, clean,
          model, file_path, hookCalls, sess, broken, snapshot, hooks, batch, pin, pout>>

\* ------------------------------------------------------------------ bounds
\* number of slots the caller ever writes (append and checkpoint calls together)
MaxAppends == 4
\* the same for a session: logged mutations and checkpoint commands together;
\* for the batch tool, the ops it is ever given
MaxSessionSlots == 3
\* largest count passed to undo / redo / recent
MaxCount == 2

\* checkpoint names used by the caller
Names == {"v1", "v2"}
\* counts passed by the caller: negative, zero, and positive
Counts == (0 - 1)..MaxCount

\* ------------------------------------------------------------ data values
\* a domain event (opaque to the log; told apart by identity: the serial
\* number of the call that appended it)
Ev(id) == [kind |-> "event", id |-> id, name |-> ""]

\* CheckpointEvent(name=name)
CheckpointEvent(name) == [kind |-> "checkpoint", id |-> 0, name |-> name]

\* isinstance(ev, CheckpointEvent)
IsCheckpoint(ev) == ev.kind = "checkpoint"

\* the empty dict
EmptyMap == [n \in {} |-> 0]

\* Python list indexing events[i] with a 0-based index: valid for
\* -len <= i < len (a negative index counts from the end), IndexError otherwise
InRange(evs, i) == (0 - Len(evs)) <= i /\ i < Len(evs)

GetItem(evs, i) == IF i >= 0 THEN evs[i + 1] ELSE evs[Len(evs) + i + 1]

\* Python slice events[:cur] for cur >= 0
SliceTo(evs, cur) == SubSeq(evs, 1, IF cur < Len(evs) THEN cur ELSE Len(evs))

\* results of a call: None, a list, or an exception
NoneRet == [kind |-> "none", items |-> <<>>]
ListRet(items) == [kind |-> "list", items |-> items]
RaiseRet(items) == [kind |-> "raise", items |-> items]

RECURSIVE Reverse(_)
Reverse(s) == IF s = <<>> THEN <<>> ELSE Append(Reverse(Tail(s)), Head(s))

\* the domain events of a list of slots, in order (sentinels left out)
RECURSIVE DomainEvents(_)
DomainEvents(s) ==
    IF s = <<>> THEN <<>>
    ELSE IF IsCheckpoint(Head(s)) THEN DomainEvents(Tail(s))
         ELSE <<Head(s)>> \o DomainEvents(Tail(s))

Min(a, b) == IF a < b THEN a ELSE b

SeqToSet(s) == {s[i] : i \in 1..Len(s)}

\* --------------------------------------------------- EventLog: truncation
\* variant: the redo tail is left in place
TruncateKeepsTail(evs, cur) == evs

\* variant: the slots kept come out in reverse order
TruncateReversesKept(evs, cur) == IF cur < Len(evs) THEN Reverse(SliceTo(evs, cur)) ELSE evs

\* self._events = self._events[: self._cursor]  (under cursor < len(events))
Truncate(evs, cur) == IF cur < Len(evs) THEN SliceTo(evs, cur) ELSE evs

\* the domain events a truncation from evs to kept drops
Dropped(evs, kept) == SeqToSet(DomainEvents(SubSeq(evs, Len(kept) + 1, Len(evs))))

\* variant: a checkpoint recorded at the cursor itself is pruned too
PruneStrict(cps, evs, cur) ==
    IF cur < Len(evs)
    THEN [n \in {m \in DOMAIN cps : cps[m] < cur} |-> cps[n]]
    ELSE cps

\* variant: no checkpoint is pruned
PruneNothing(cps, evs, cur) == cps

\* variant: a checkpoint recorded one slot beyond the cursor is kept
PruneKeepsNext(cps, evs, cur) ==
    IF cur < Len(evs)
    THEN [n \in {m \in DOMAIN cps : cps[m] <= cur + 1} |-> cps[n]]
    ELSE cps

\* the dict comprehension {name: pos ... if pos <= self._cursor}
\* (under cursor < len(events), tested on the list before truncation)
Prune(cps, evs, cur) ==
    IF cur < Len(evs)
    THEN [n \in {m \in DOMAIN cps : cps[m] <= cur} |-> cps[n]]
    ELSE cps

\* ---------------------------------------------------- EventLog: checkpoint
\* variant: the position recorded is the one after the sentinel
RecordAfterSentinel(cps, name, cur) ==
    [n \in DOMAIN cps \cup {name} |-> IF n = name THEN cur + 1 ELSE cps[n]]

\* variant: a name that is already in the map keeps its first position
RecordKeepsFirst(cps, name, cur) ==
    [n \in DOMAIN cps \cup {name} |-> IF n \in DOMAIN cps THEN cps[n] ELSE cur]

\* self._checkpoints[name] = self._cursor
Record(cps, name, cur) ==
    [n \in DOMAIN cps \cup {name} |-> IF n = name THEN cur ELSE cps[n]]

\* --------------------------------------------------------- EventLog: undo
\* variant: the loop does not stop at cursor 0
RECURSIVE UndoWalkNoFloor(_, _, _, _)
UndoWalkNoFloor(evs, cur, remaining, acc) ==
    IF remaining > 0
    THEN LET c == cur - 1 IN
         IF ~InRange(evs, c)
         THEN [cursor |-> c, items |-> acc, raised |-> TRUE]
         ELSE IF IsCheckpoint(GetItem(evs, c))
              THEN UndoWalkNoFloor(evs, c, remaining, acc)
              ELSE UndoWalkNoFloor(evs, c, remaining - 1, Append(acc, GetItem(evs, c)))
    ELSE [cursor |-> cur, items |-> acc, raised |-> FALSE]

\* variant: a sentinel walked over counts toward count
RECURSIVE UndoWalkCountsSentinels(_, _, _, _)
UndoWalkCountsSentinels(evs, cur, remaining, acc) ==
    IF remaining > 0 /\ cur > 0
    THEN LET c == cur - 1 IN
         IF ~InRange(evs, c)
         THEN [cursor |-> c, items |-> acc, raised |-> TRUE]
         ELSE IF IsCheckpoint(GetItem(evs, c))
              THEN UndoWalkCountsSentinels(evs, c, remaining - 1, acc)
              ELSE UndoWalkCountsSentinels(evs, c, remaining - 1, Append(acc, GetItem(evs, c)))
    ELSE [cursor |-> cur, items |-> acc, raised |-> FALSE]

\* variant: the loop runs while remaining != 0
RECURSIVE UndoWalkUntilZero(_, _, _, _)
UndoWalkUntilZero(evs, cur, remaining, acc) ==
    IF remaining # 0 /\ cur > 0
    THEN LET c == cur - 1 IN
         IF ~InRange(evs, c)
         THEN [cursor |-> c, items |-> acc, raised |-> TRUE]
         ELSE IF IsCheckpoint(GetItem(evs, c))
              THEN UndoWalkUntilZero(evs, c, remaining, acc)
              ELSE UndoWalkUntilZero(evs, c, remaining - 1, Append(acc, GetItem(evs, c)))
    ELSE [cursor |-> cur, items |-> acc, raised |-> FALSE]

RECURSIVE UndoWalk(_, _, _, _)
UndoWalk(evs, cur, remaining, acc) ==
    IF remaining > 0 /\ cur > 0
    THEN LET c == cur - 1 IN
         IF ~InRange(evs, c)
         THEN [cursor |-> c, items |-> acc, raised |-> TRUE]
         ELSE IF IsCheckpoint(GetItem(evs, c))
              THEN UndoWalk(evs, c, remaining, acc)
              ELSE UndoWalk(evs, c, remaining - 1, Append(acc, GetItem(evs, c)))
    ELSE [cursor |-> cur, items |-> acc, raised |-> FALSE]

\* ------------------------------------------------------ EventLog: undo_to
\* variant: the loop runs while cursor >= target
RECURSIVE UndoToWalkOneMore(_, _, _, _)
UndoToWalkOneMore(evs, cur, target, acc) ==
    IF cur >= target
    THEN LET c == cur - 1 IN
         IF ~InRange(evs, c)
         THEN [cursor |-> c, items |-> acc, raised |-> TRUE]
         ELSE IF ~IsCheckpoint(GetItem(evs, c))
              THEN UndoToWalkOneMore(evs, c, target, Append(acc, GetItem(evs, c)))
              ELSE UndoToWalkOneMore(evs, c, target, acc)
    ELSE [cursor |-> cur, items |-> acc, raised |-> FALSE]

RECURSIVE UndoToWalk(_, _, _, _)
UndoToWalk(evs, cur, target, acc) ==
    IF cur > target
    THEN LET c == cur - 1 IN
         IF ~InRange(evs, c)
         THEN [cursor |-> c, items |-> acc, raised |-> TRUE]
         ELSE IF ~IsCheckpoint(GetItem(evs, c))
              THEN UndoToWalk(evs, c, target, Append(acc, GetItem(evs, c)))
              ELSE UndoToWalk(evs, c, target, acc)
    ELSE [cursor |-> cur, items |-> acc, raised |-> FALSE]

\* variant: an unknown name yields an empty list
UndoToResultEmptyList(evs, cur, cps, name) ==
    IF name \notin DOMAIN cps
    THEN [cursor |-> cur, ret |-> ListRet(<<>>)]
    ELSE LET w == UndoToWalk(evs, cur, cps[name], <<>>) IN
         [cursor |-> w.cursor,
          ret |-> IF w.raised THEN RaiseRet(w.items) ELSE ListRet(w.items)]

\* undo_to as a whole: None for an unknown name, otherwise the walk
UndoToResult(evs, cur, cps, name) ==
    IF name \notin DOMAIN cps
    THEN [cursor |-> cur, ret |-> NoneRet]
    ELSE LET w == UndoToWalk(evs, cur, cps[name], <<>>) IN
         [cursor |-> w.cursor,
          ret |-> IF w.raised THEN RaiseRet(w.items) ELSE ListRet(w.items)]

\* --------------------------------------------------------- EventLog: redo
\* variant: a sentinel walked over counts toward count
RECURSIVE RedoWalkCountsSentinels(_, _, _, _)
RedoWalkCountsSentinels(evs, cur, remaining, acc) ==
    IF remaining > 0 /\ cur < Len(evs)
    THEN IF ~InRange(evs, cur)
         THEN [cursor |-> cur, items |-> acc, raised |-> TRUE]
         ELSE IF IsCheckpoint(GetItem(evs, cur))
              THEN RedoWalkCountsSentinels(evs, cur + 1, remaining - 1, acc)
              ELSE RedoWalkCountsSentinels(evs, cur + 1, remaining - 1, Append(acc, GetItem(evs, cur)))
    ELSE [cursor |-> cur, items |-> acc, raised |-> FALSE]

\* variant: replayed events are collected most-recent-first, as undo does
RECURSIVE RedoWalkPrepends(_, _, _, _)
RedoWalkPrepends(evs, cur, remaining, acc) ==
    IF remaining > 0 /\ cur < Len(evs)
    THEN IF ~InRange(evs, cur)
         THEN [cursor |-> cur, items |-> acc, raised |-> TRUE]
         ELSE IF IsCheckpoint(GetItem(evs, cur))
              THEN RedoWalkPrepends(evs, cur + 1, remaining, acc)
              ELSE RedoWalkPrepends(evs, cur + 1, remaining - 1, <<GetItem(evs, cur)>> \o acc)
    ELSE [cursor |-> cur, items |-> acc, raised |-> FALSE]

\* variant: the sentinels that follow the last replayed event are walked over
RECURSIVE RedoWalkPastSentinels(_, _, _, _)
RedoWalkPastSentinels(evs, cur, remaining, acc) ==
    IF cur < Len(evs) /\ InRange(evs, cur)
          /\ (remaining > 0 \/ (acc # <<>> /\ IsCheckpoint(GetItem(evs, cur))))
    THEN IF IsCheckpoint(GetItem(evs, cur))
         THEN RedoWalkPastSentinels(evs, cur + 1, remaining, acc)
         ELSE RedoWalkPastSentinels(evs, cur + 1, remaining - 1, Append(acc, GetItem(evs, cur)))
    ELSE [cursor |-> cur, items |-> acc, raised |-> FALSE]

RECURSIVE RedoWalk(_, _, _, _)
RedoWalk(evs, cur, remaining, acc) ==
    IF remaining > 0 /\ cur < Len(evs)
    THEN IF ~InRange(evs, cur)
         THEN [cursor |-> cur, items |-> acc, raised |-> TRUE]
         ELSE IF IsCheckpoint(GetItem(evs, cur))
              THEN RedoWalk(evs, cur + 1, remaining, acc)
              ELSE RedoWalk(evs, cur + 1, remaining - 1, Append(acc, GetItem(evs, cur)))
    ELSE [cursor |-> cur, items |-> acc, raised |-> FALSE]

\* ------------------------------------------------------- EventLog: recent
\* variant: the collected events are not reversed at the end
RECURSIVE RecentWalkNoReverse(_, _, _, _)
RecentWalkNoReverse(evs, idx, count, acc) ==
    IF Len(acc) < count /\ idx >= 0
    THEN IF ~InRange(evs, idx)
         THEN [items |-> acc, raised |-> TRUE, idx |-> idx]
         ELSE IF ~IsCheckpoint(GetItem(evs, idx))
              THEN RecentWalkNoReverse(evs, idx - 1, count, Append(acc, GetItem(evs, idx)))
              ELSE RecentWalkNoReverse(evs, idx - 1, count, acc)
    ELSE [items |-> acc, raised |-> FALSE, idx |-> idx]

RECURSIVE RecentWalk(_, _, _, _)
RecentWalk(evs, idx, count, acc) ==
    IF Len(acc) < count /\ idx >= 0
    THEN IF ~InRange(evs, idx)
         THEN [items |-> acc, raised |-> TRUE, idx |-> idx]
         ELSE IF ~IsCheckpoint(GetItem(evs, idx))
              THEN RecentWalk(evs, idx - 1, count, Append(acc, GetItem(evs, idx)))
              ELSE RecentWalk(evs, idx - 1, count, acc)
    ELSE [items |-> Reverse(acc), raised |-> FALSE, idx |-> idx]

\* ------------------------------------------------------------ call records
PreState == [events |-> events, cursor |-> cursor, checkpoints |-> checkpoints,
             clean |-> clean, since |-> since, marked |-> marked]

Call(op, cnt, name, ret) ==
    [op |-> op, cnt |-> cnt, name |-> name, ret |-> ret, pre |-> PreState]

NoCall ==
    [op |-> "init", cnt |-> 0, name |-> "", ret |-> NoneRet,
     pre |-> [events |-> <<>>, cursor |-> 0, checkpoints |-> EmptyMap,
              clean |-> [n \in Names |-> FALSE],
              since |-> [n \in Names |-> <<>>],
              marked |-> [n \in Names |-> <<>>]]]

\* a call that is not the redo of an undo/redo pair forgets the call before it
Forget == prev' = NoCall

\* history of checkpoint(name) after a call that leaves the map as cps:
\* the prefix is kept while the name stays in the map
KeepMarked(cps) == [n \in Names |-> IF n \in DOMAIN cps THEN marked[n] ELSE <<>>]

\* a cursor move ends every "only appends since the checkpoint" history
NoneClean == [n \in Names |-> FALSE]
NoneSince == [n \in Names |-> <<>>]

\* ------------------------------------------------- session: data values
\* a token of a session command: text = pre + body, where pre is one of the
\* prefixes the handlers test for ("as:", "to:", "<key>:", "-") or empty
Tok(pre, body) == [pre |-> pre, body |-> body]
Bare(body) == Tok("", body)

\* arg.startswith(p)
StartsWith(tok, p) == tok.pre = p

\* ":" in arg
HasColon(tok) == tok.pre \in {"as:", "to:", "title:"}

\* the whole text of a token that carries no prefix
Text(tok) == tok.body

\* None as the value of _file_path / of a path not given
NONE == "<None>"

\* Python truthiness of an optional string
Truthy(p) == p # NONE /\ p # ""

\* self._model is None
NoModel == [present |-> FALSE, data |-> <<>>]

\* no domain event (argument of a hook that takes none)
NoEv == [kind |-> "none", id |-> 0, name |-> ""]

\* one call of a hook or callback, with the event or path it was given
HookCall(hook, ev, path) == [hook |-> hook, ev |-> ev, path |-> path]

\* what dispatch gives back: a result line ('+' or '!', the message and the
\* value it names) or an exception that leaves dispatch
Line(ok, msg, arg) == [kind |-> "line", ok |-> ok, msg |-> msg, arg |-> arg]
Raised(hook) == [kind |-> "raise", ok |-> FALSE, msg |-> "exception", arg |-> hook]

\* nothing checkpointed
NoSnapshot == [n \in Names |-> <<>>]

\* the snapshots of the names the map cps still holds
KeepSnapshot(cps) == [n \in Names |-> IF n \in DOMAIN cps THEN snapshot[n] ELSE <<>>]

\* no function to call, nothing returned yet
NoInput == [fn |-> "", s |-> <<>>, cb |-> ""]
NotCalled == [kind |-> "not called"]

\* no batch yet
NoBatch ==
    [ops |-> <<>>, snap |-> FALSE, pre |-> NoModel, out |-> <<>>, parsed |-> 0,
     dispatched |-> 0, restored |-> <<>>,
     log |-> [events |-> <<>>, cursor |-> 0, checkpoints |-> EmptyMap]]

\* no dispatch yet
NoDispatch ==
    [cmd |-> "<none>", args |-> <<>>, res |-> Line(TRUE, "init", ""), failed |-> "",
     pre |-> [model |-> NoModel, file_path |-> NONE, events |-> <<>>, cursor |-> 0,
              checkpoints |-> EmptyMap]]

\* ------------------------------------------------------------------- Init
\* EventLog.__init__ and SessionDispatcher.__init__
Start ==
    /\ model = NoModel
    /\ file_path = NONE
    /\ hookCalls = <<>>
    /\ sess = NoDispatch
    /\ broken = FALSE
    /\ snapshot = NoSnapshot
    /\ batch = NoBatch
    /\ pout = NotCalled
    /\ events = <<>>
    /\ cursor = 0
    /\ checkpoints = EmptyMap
    /\ nextId = 1
    /\ last = NoCall
    /\ prev = NoCall
    /\ discarded = {}
    /\ marked = [n \in Names |-> <<>>]
    /\ since = [n \in Names |-> <<>>]
    /\ clean = [n \in Names |-> FALSE]

\* an EventLog of its own, or a dispatcher built with the hooks of the tests
Init == Start /\ hooks = "mock" /\ pin = NoInput

HooksKinds == {"mock", "bridge"}

\* a dispatcher built with either kind of hooks
InitSession == Start /\ hooks \in HooksKinds /\ pin = NoInput

\* ---------------------------------------------------------------- actions
\* EventLog.append(event) with a fresh domain event
DoAppend ==
    /\ nextId <= MaxAppends
    /\ LET kept == Truncate(events, cursor) IN
       /\ events' = Append(kept, Ev(nextId))
       /\ checkpoints' = Prune(checkpoints, events, cursor)
       /\ cursor' = cursor + 1
       /\ discarded' = discarded \cup Dropped(events, kept)
    /\ nextId' = nextId + 1
    /\ since' = [n \in Names |-> IF clean[n] THEN Append(since[n], Ev(nextId)) ELSE <<>>]
    /\ marked' = KeepMarked(checkpoints')
    /\ last' = Call("append", 0, "", NoneRet)
    /\ Forget
    /\ UNCHANGED clean
    /\ UNCHANGED sessVars

\* EventLog.checkpoint(name)
DoCheckpoint(name) ==
    /\ nextId <= MaxAppends
    /\ LET recorded == Record(checkpoints, name, cursor)
           kept == Truncate(events, cursor)
       IN
       /\ checkpoints' = Prune(recorded, events, cursor)
       /\ events' = Append(kept, CheckpointEvent(name))
       /\ cursor' = cursor + 1
       /\ discarded' = discarded \cup Dropped(events, kept)
    /\ marked' = [KeepMarked(checkpoints') EXCEPT ![name] = SliceTo(events, cursor)]
    /\ since' = [since EXCEPT ![name] = <<>>]
    /\ clean' = [clean EXCEPT ![name] = TRUE]
    /\ last' = Call("checkpoint", 0, name, NoneRet)
    /\ Forget
    /\ nextId' = nextId + 1
    /\ UNCHANGED sessVars

\* EventLog.undo(count)
DoUndo(count) ==
    /\ LET w == UndoWalk(events, cursor, count, <<>>) IN
       /\ cursor' = w.cursor
       /\ last' = Call("undo", count, "",
                       IF w.raised THEN RaiseRet(w.items) ELSE ListRet(w.items))
    /\ clean' = NoneClean
    /\ since' = NoneSince
    /\ Forget
    /\ UNCHANGED <<events, checkpoints, nextId, discarded, marked>>
    /\ UNCHANGED sessVars

\* EventLog.undo_to(name)
DoUndoTo(name) ==
    /\ LET r == UndoToResult(events, cursor, checkpoints, name) IN
       /\ cursor' = r.cursor
       /\ last' = Call("undo_to", 0, name, r.ret)
    /\ clean' = NoneClean
    /\ since' = NoneSince
    /\ Forget
    /\ UNCHANGED <<events, checkpoints, nextId, discarded, marked>>
    /\ UNCHANGED sessVars

\* EventLog.redo(count)
DoRedo(count) ==
    /\ LET w == RedoWalk(events, cursor, count, <<>>) IN
       /\ cursor' = w.cursor
       /\ last' = Call("redo", count, "",
                       IF w.raised THEN RaiseRet(w.items) ELSE ListRet(w.items))
    /\ clean' = NoneClean
    /\ since' = NoneSince
    /\ prev' = IF last.op = "undo" /\ count \in {last.cnt, Len(last.ret.items)}
                THEN last ELSE NoCall
    /\ UNCHANGED <<events, checkpoints, nextId, discarded, marked>>
    /\ UNCHANGED sessVars

\* EventLog.recent(count)
DoRecent(count) ==
    /\ LET w == RecentWalk(events, cursor - 1, count, <<>>) IN
       last' = Call("recent", count, "",
                    IF w.raised THEN RaiseRet(w.items) ELSE ListRet(w.items))
    /\ Forget
    /\ UNCHANGED <<events, cursor, checkpoints, nextId, discarded, marked, since, clean>>
    /\ UNCHANGED sessVars

Next ==
    \/ DoAppend
    \/ \E name \in Names : DoCheckpoint(name)
    \/ \E count \in Counts : DoUndo(count)
    \/ \E name \in Names : DoUndoTo(name)
    \/ \E count \in Counts : DoRedo(count)
    \/ \E count \in Counts : DoRecent(count)

Spec == Init /\ [][Next]_vars

\* =================================================== SessionDispatcher
\* ------------------------------------------------------ hooks that raise
\* the hook that raises during a dispatch, and at which of its calls
Plan(hook, at) == [hook |-> hook, at |-> at]
NoPlan == Plan("", 0)
PlansFor(failing, ats) == {NoPlan} \cup {Plan(h, k) : h \in failing, k \in ats}
NewPlans == PlansFor({"on_new"}, {1})
OpenPlans == PlansFor({"on_open", "on_rebuild_indices"}, {1})
SavePlans == PlansFor({"on_save"}, {1})
UndoPlans == PlansFor({"reverse_event"}, {1, 2}) \cup PlansFor({"on_rebuild_indices"}, {1})
RedoPlans == PlansFor({"replay_event", "on_rebuild_indices"}, {1})

\* the k-th call of hook raises
FailsAt(plan, hook, k) == plan.hook = hook /\ plan.at = k

\* once reverse_event or replay_event has raised, the model is followed no
\* further through mutations, undo and redo until new or open replaces it
Followed == ~broken

\* --------------------------------------------------- the adapter's model
\* params.get("title", default)
TitleOf(params, default) == IF "title" \in DOMAIN params THEN params["title"] ELSE default

\* MockHooks.on_new: a fresh model with no data
CreateModel(params) == [present |-> TRUE, data |-> <<>>]

\* MockHooks.on_open: a model read from path
OpenModel(path) == [present |-> TRUE, data |-> <<>>]

\* a mutation: model.data.append(value)
ApplyEvent(ev, mdl) == [mdl EXCEPT !.data = Append(mdl.data, ev)]

\* list.remove(value): the first occurrence goes
RemoveFirst(s, x) ==
    LET i == CHOOSE i \in 1..Len(s) : s[i] = x /\ \A j \in 1..(i - 1) : s[j] # x
    IN SubSeq(s, 1, i - 1) \o SubSeq(s, i + 1, Len(s))

\* variant: reverse_event leaves the model as it is
ReverseEventKeeps(ev, mdl) == mdl

\* reverse_event: model.data.remove(value)
ReverseEvent(ev, mdl) == [mdl EXCEPT !.data = RemoveFirst(mdl.data, ev)]

\* replay_event: model.data.append(value)
ReplayEvent(ev, mdl) == ApplyEvent(ev, mdl)

\* ------------------------------------------------------- argument parsing
EmptyParams == [k \in {} |-> ""]

\* params[k] = v
Put(f, k, v) == [x \in DOMAIN f \cup {k} |-> IF x = k THEN v ELSE f[x]]

\* k of k, _, v = arg.partition(":")
KeyOf(tok) == CASE tok.pre = "title:" -> "title"
                [] tok.pre = "as:" -> "as"
                [] tok.pre = "to:" -> "to"
                [] OTHER -> ""

\* _handle_new: the key:value tokens, a later one overwriting an earlier one
RECURSIVE KvParams(_, _)
KvParams(args, acc) ==
    IF args = <<>> THEN acc
    ELSE KvParams(Tail(args),
                  IF HasColon(Head(args))
                  THEN Put(acc, KeyOf(Head(args)), Head(args).body)
                  ELSE acc)

\* _handle_new: the tokens without a colon
Positionals(args) == SelectSeq(args, LAMBDA a : ~HasColon(a))

\* _AdapterSessionHooks.on_new: params.pop("title", "Untitled") removes the
\* key from the mapping the handler goes on to read; MockHooks.on_new only reads
ParamsAfterOnNew(params) ==
    IF hooks = "bridge" THEN [k \in DOMAIN params \ {"title"} |-> params[k]] ELSE params

\* _handle_new: params, with positional[0] stored as title when there is one
NewParams(args) ==
    IF Positionals(args) # <<>>
    THEN Put(KvParams(args, EmptyParams), "title", Text(Positionals(args)[1]))
    ELSE KvParams(args, EmptyParams)

\* _handle_save: the loop over args that sets path
RECURSIVE SavePath(_, _)
SavePath(args, path) ==
    IF args = <<>> THEN path
    ELSE SavePath(Tail(args),
                  IF StartsWith(Head(args), "as:") THEN Head(args).body
                  ELSE IF ~StartsWith(Head(args), "-") THEN Text(Head(args))
                  ELSE path)

\* _handle_undo: the loop over args that sets to_name
RECURSIVE UndoToName(_, _)
UndoToName(args, name) ==
    IF args = <<>> THEN name
    ELSE UndoToName(Tail(args),
                    IF StartsWith(Head(args), "to:") THEN Head(args).body ELSE name)

\* variant: the callback is given the events last to first
RECURSIVE ApplyAllBackwards(_, _, _, _, _, _)
ApplyAllBackwards(cb, items, mdl, k, plan, calls) ==
    IF items = <<>>
    THEN [model |-> mdl, calls |-> calls, raised |-> FALSE]
    ELSE LET ev == items[Len(items)] IN
         IF FailsAt(plan, cb, k)
         THEN [model |-> mdl, calls |-> Append(calls, HookCall(cb, ev, "")), raised |-> TRUE]
         ELSE ApplyAllBackwards(cb, SubSeq(items, 1, Len(items) - 1),
                                IF cb = "reverse_event" THEN ReverseEvent(ev, mdl)
                                ELSE ReplayEvent(ev, mdl),
                                k + 1, plan, Append(calls, HookCall(cb, ev, "")))

\* for ev in events: callback(ev, self._model), the k-th call being the next
RECURSIVE ApplyAll(_, _, _, _, _, _)
ApplyAll(cb, items, mdl, k, plan, calls) ==
    IF items = <<>>
    THEN [model |-> mdl, calls |-> calls, raised |-> FALSE]
    ELSE IF FailsAt(plan, cb, k)
         THEN [model |-> mdl, calls |-> Append(calls, HookCall(cb, Head(items), "")),
               raised |-> TRUE]
         ELSE ApplyAll(cb, Tail(items),
                       IF cb = "reverse_event" THEN ReverseEvent(Head(items), mdl)
                       ELSE ReplayEvent(Head(items), mdl),
                       k + 1, plan, Append(calls, HookCall(cb, Head(items), "")))

\* --------------------------------------------------------- dispatch record
\* the session as the dispatch found it
SessPre == [model |-> model, file_path |-> file_path, events |-> events,
            cursor |-> cursor, checkpoints |-> checkpoints]

\* failed is the hook that raised during the dispatch ("" when none did)
Dispatched(cmd, args, res, failed) ==
    [cmd |-> cmd, args |-> args, res |-> res, failed |-> failed, pre |-> SessPre]

\* variant: a rejected dispatch forgets the remembered file path
RejectedForgetsPath(cmd, args, msg, arg) ==
    /\ sess' = Dispatched(cmd, args, Line(FALSE, msg, arg), "")
    /\ hookCalls' = <<>>
    /\ file_path' = NONE
    /\ UNCHANGED <<events, cursor, checkpoints, nextId, model, broken, snapshot>>

\* a dispatch that ends before it touched anything
Rejected(cmd, args, msg, arg) ==
    /\ sess' = Dispatched(cmd, args, Line(FALSE, msg, arg), "")
    /\ hookCalls' = <<>>
    /\ UNCHANGED <<events, cursor, checkpoints, nextId, model, file_path, broken, snapshot>>

\* ------------------------------------------------------------- the inputs
NewArgs == {<<>>, <<Bare("t1")>>, <<Tok("title:", "t2")>>, <<Tok("title:", "t2"), Bare("t1")>>}
OpenArgs == {<<>>, <<Bare("p1")>>}
SaveArgs == {<<>>, <<Tok("as:", "p2")>>, <<Bare("p3")>>,
             <<Tok("as:", "p2"), Bare("p3")>>, <<Bare("p3"), Tok("as:", "p2")>>,
             <<Tok("-", "f")>>, <<Tok("as:", "")>>}
CheckpointArgs == {<<>>, <<Bare("v1")>>}
UndoArgs == {<<>>, <<Tok("to:", "v1")>>, <<Tok("to:", "v2")>>}
RedoArgs == {<<>>, <<Bare("2")>>}
UnknownCommands == {"explode", ""}

\* ---------------------------------------------------------------- handlers
\* variant: new keeps the event log of the replaced model
HandleNewKeepsLog(args, plan) ==
    /\ IF FailsAt(plan, "on_new", 1)
       THEN /\ sess' = Dispatched("new", args, Line(FALSE, "Failed to create", ""), "on_new")
            /\ UNCHANGED <<model, broken, snapshot>>
       ELSE /\ model' = CreateModel(NewParams(args))
            /\ snapshot' = NoSnapshot
            /\ broken' = FALSE
            /\ sess' = Dispatched("new", args,
                          Line(TRUE, "New session",
                               TitleOf(ParamsAfterOnNew(NewParams(args)), "Untitled")), "")
    /\ hookCalls' = <<HookCall("on_new", NoEv, TitleOf(NewParams(args), NONE))>>
    /\ UNCHANGED <<file_path, nextId, events, cursor, checkpoints>>
    /\ UNCHANGED <<logHist, hooks, batch, parseVars>>

\* _handle_new
HandleNew(args, plan) ==
    /\ IF FailsAt(plan, "on_new", 1)
       THEN /\ sess' = Dispatched("new", args, Line(FALSE, "Failed to create", ""), "on_new")
            /\ UNCHANGED <<model, events, cursor, checkpoints, broken, snapshot>>
       ELSE /\ model' = CreateModel(NewParams(args))
            /\ snapshot' = NoSnapshot
            /\ events' = <<>>
            /\ cursor' = 0
            /\ checkpoints' = EmptyMap
            /\ broken' = FALSE
            /\ sess' = Dispatched("new", args,
                          Line(TRUE, "New session",
                               TitleOf(ParamsAfterOnNew(NewParams(args)), "Untitled")), "")
    /\ hookCalls' = <<HookCall("on_new", NoEv, TitleOf(NewParams(args), NONE))>>
    /\ UNCHANGED <<file_path, nextId>>
    /\ UNCHANGED <<logHist, hooks, batch, parseVars>>

\* _handle_open
HandleOpen(args, plan) ==
    /\ IF args = <<>>
       THEN Rejected("open", args, "Missing file path", "")
       ELSE LET path == Text(args[1]) IN
            IF FailsAt(plan, "on_open", 1)
            THEN /\ sess' = Dispatched("open", args, Line(FALSE, "Failed to open", path), "on_open")
                 /\ hookCalls' = <<HookCall("on_open", NoEv, path)>>
                 /\ UNCHANGED <<model, events, cursor, checkpoints, file_path, broken, nextId,
                                snapshot>>
            ELSE /\ model' = OpenModel(path)
                 /\ snapshot' = NoSnapshot
                 /\ events' = <<>>
                 /\ cursor' = 0
                 /\ checkpoints' = EmptyMap
                 /\ file_path' = path
                 /\ broken' = FALSE
                 /\ hookCalls' = <<HookCall("on_open", NoEv, path),
                                   HookCall("on_rebuild_indices", NoEv, "")>>
                 /\ sess' = IF FailsAt(plan, "on_rebuild_indices", 1)
                            THEN Dispatched("open", args, Line(FALSE, "Failed to open", path),
                                            "on_rebuild_indices")
                            ELSE Dispatched("open", args, Line(TRUE, "Opened", path), "")
                 /\ UNCHANGED nextId
    /\ UNCHANGED <<logHist, hooks, batch, parseVars>>

\* _handle_save
HandleSave(args, plan) ==
    /\ IF ~model.present
       THEN Rejected("save", args, "No model to save", "")
       ELSE LET path == SavePath(args, NONE)
                target == IF Truthy(path) THEN path ELSE file_path
            IN
            IF ~Truthy(path) /\ ~Truthy(file_path)
            THEN Rejected("save", args, "No file path set", "")
            ELSE /\ file_path' = target
                 /\ hookCalls' = <<HookCall("on_save", NoEv, target)>>
                 /\ sess' = IF FailsAt(plan, "on_save", 1)
                            THEN Dispatched("save", args, Line(FALSE, "Failed to save", ""),
                                            "on_save")
                            ELSE Dispatched("save", args, Line(TRUE, "Saved to", target), "")
                 /\ UNCHANGED <<events, cursor, checkpoints, nextId, model, broken, snapshot>>
    /\ UNCHANGED <<logHist, hooks, batch, parseVars>>

\* _handle_checkpoint
HandleCheckpoint(args) ==
    /\ IF args = <<>>
       THEN Rejected("checkpoint", args, "Missing checkpoint name", "")
       ELSE /\ nextId <= MaxSessionSlots
            /\ checkpoints' = Prune(Record(checkpoints, Text(args[1]), cursor), events, cursor)
            /\ events' = Append(Truncate(events, cursor), CheckpointEvent(Text(args[1])))
            /\ cursor' = cursor + 1
            /\ nextId' = nextId + 1
            /\ snapshot' = [KeepSnapshot(checkpoints') EXCEPT ![Text(args[1])] = model.data]
            /\ hookCalls' = <<>>
            /\ sess' = Dispatched("checkpoint", args,
                                  Line(TRUE, "Checkpoint created", Text(args[1])), "")
            /\ UNCHANGED <<model, file_path, broken>>
    /\ UNCHANGED <<logHist, hooks, batch, parseVars>>

\* variant: an exception of a callback or of on_rebuild_indices is caught and
\* turned into a failure line
ReplayedCatches(cmd, cb, args, plan, items, cur, okMsg, okArg, emptyMsg) ==
    /\ cursor' = cur
    /\ IF items = <<>>
       THEN /\ sess' = Dispatched(cmd, args, Line(FALSE, emptyMsg, ""), "")
            /\ hookCalls' = <<>>
            /\ UNCHANGED <<model, broken>>
       ELSE LET a == ApplyAll(cb, items, model, 1, plan, <<>>) IN
            /\ model' = a.model
            /\ broken' = (broken \/ a.raised)
            /\ IF a.raised
               THEN /\ hookCalls' = a.calls
                    /\ sess' = Dispatched(cmd, args, Line(FALSE, "Failed", ""), cb)
               ELSE /\ hookCalls' = Append(a.calls, HookCall("on_rebuild_indices", NoEv, ""))
                    /\ sess' = IF FailsAt(plan, "on_rebuild_indices", 1)
                               THEN Dispatched(cmd, args, Line(FALSE, "Failed", ""),
                                               "on_rebuild_indices")
                               ELSE Dispatched(cmd, args, Line(TRUE, okMsg, okArg), "")
    /\ UNCHANGED <<events, checkpoints, nextId, file_path, snapshot>>

\* the part of _handle_undo / _handle_redo after the log has answered items
\* and moved the cursor to cur
Replayed(cmd, cb, args, plan, items, cur, okMsg, okArg, emptyMsg) ==
    /\ cursor' = cur
    /\ IF items = <<>>
       THEN /\ sess' = Dispatched(cmd, args, Line(FALSE, emptyMsg, ""), "")
            /\ hookCalls' = <<>>
            /\ UNCHANGED <<model, broken>>
       ELSE LET a == ApplyAll(cb, items, model, 1, plan, <<>>) IN
            /\ model' = a.model
            /\ broken' = (broken \/ a.raised)
            /\ IF a.raised
               THEN /\ hookCalls' = a.calls
                    /\ sess' = Dispatched(cmd, args, Raised(cb), cb)
               ELSE /\ hookCalls' = Append(a.calls, HookCall("on_rebuild_indices", NoEv, ""))
                    /\ sess' = IF FailsAt(plan, "on_rebuild_indices", 1)
                               THEN Dispatched(cmd, args, Raised("on_rebuild_indices"),
                                               "on_rebuild_indices")
                               ELSE Dispatched(cmd, args, Line(TRUE, okMsg, okArg), "")
    /\ UNCHANGED <<events, checkpoints, nextId, file_path, snapshot>>

\* _handle_undo
HandleUndo(args, plan) ==
    /\ Followed
    /\ IF ~model.present
       THEN Rejected("undo", args, "No model loaded", "")
       ELSE LET to_name == UndoToName(args, NONE) IN
            IF Truthy(to_name)
            THEN LET r == UndoToResult(events, cursor, checkpoints, to_name) IN
                 IF r.ret.kind = "none"
                 THEN Rejected("undo", args, "No checkpoint named", to_name)
                 ELSE Replayed("undo", "reverse_event", args, plan, r.ret.items, r.cursor,
                               "Undone to checkpoint", to_name, "Nothing to undo")
            ELSE LET w == UndoWalk(events, cursor, 1, <<>>) IN
                 Replayed("undo", "reverse_event", args, plan, w.items, w.cursor,
                          "Undone", "", "Nothing to undo")
    /\ UNCHANGED <<logHist, hooks, batch, parseVars>>

\* _handle_redo
HandleRedo(args, plan) ==
    /\ Followed
    /\ IF ~model.present
       THEN Rejected("redo", args, "No model loaded", "")
       ELSE LET w == RedoWalk(events, cursor, 1, <<>>) IN
            Replayed("redo", "replay_event", args, plan, w.items, w.cursor,
                     "Redone", "", "Nothing to redo")
    /\ UNCHANGED <<logHist, hooks, batch, parseVars>>

\* dispatch: case _ (no handler for the command)
HandleUnknown(cmd) ==
    /\ Rejected(cmd, <<>>, "Unknown session action", cmd)
    /\ UNCHANGED <<logHist, hooks, batch, parseVars>>

\* the adapter applies a mutation to the model and logs its event
\* (model.data.append(x); event_log.append(MockEvent("add", x)))
Mutate ==
    /\ model.present
    /\ Followed
    /\ nextId <= MaxSessionSlots
    /\ model' = ApplyEvent(Ev(nextId), model)
    /\ events' = Append(Truncate(events, cursor), Ev(nextId))
    /\ checkpoints' = Prune(checkpoints, events, cursor)
    /\ cursor' = cursor + 1
    /\ nextId' = nextId + 1
    /\ snapshot' = KeepSnapshot(checkpoints')
    /\ hookCalls' = <<>>
    /\ sess' = Dispatched("mutate", <<>>, Line(TRUE, "logged", ""), "")
    /\ UNCHANGED <<file_path, broken>>
    /\ UNCHANGED <<logHist, hooks, batch, parseVars>>

NextSession ==
    \/ \E args \in NewArgs, plan \in NewPlans : HandleNew(args, plan)
    \/ \E args \in OpenArgs, plan \in OpenPlans :
          HandleOpen(args, plan)
    \/ \E args \in SaveArgs, plan \in SavePlans : HandleSave(args, plan)
    \/ \E args \in CheckpointArgs : HandleCheckpoint(args)
    \/ \E args \in UndoArgs, plan \in UndoPlans :
          HandleUndo(args, plan)
    \/ \E args \in RedoArgs, plan \in RedoPlans :
          HandleRedo(args, plan)
    \/ \E cmd \in UnknownCommands : HandleUnknown(cmd)
    \/ Mutate

SpecSession == InitSession /\ [][NextSession]_vars

\* ============================================== tokenizer.py, parsed_op.py
\* A string is the sequence of its characters.
\* _WHITESPACE (of its four characters the inputs use the space)
WHITESPACE == {" ", "\t", "\n", "\r"}

\* ch in ('"', "'")
QuoteChars == {"\"", "'"}

\* the least of a non-empty set of indices
Least(hits) == CHOOSE j \in hits : \A k \in hits : j <= k

\* the least index j >= i of s with s[j] in chars, Len(s) + 1 when there is none
FirstIn(s, i, chars) ==
    IF {j \in i..Len(s) : s[j] \in chars} = {} THEN Len(s) + 1
    ELSE Least({j \in i..Len(s) : s[j] \in chars})

\* the same for the characters outside chars
FirstNotIn(s, i, chars) ==
    IF {j \in i..Len(s) : s[j] \notin chars} = {} THEN Len(s) + 1
    ELSE Least({j \in i..Len(s) : s[j] \notin chars})

\* TokenMeta
TokenMeta(text, was_quoted) == [text |-> text, was_quoted |-> was_quoted]

\* _consume_quoted(s, i, quote_char), s[i] being the opening quote: content
\* and new index, or the ValueError of an unclosed quote
ConsumeQuoted(s, i, quote_char) ==
    LET k == FirstIn(s, i + 1, {quote_char}) IN
    IF k > Len(s)
    THEN [raised |-> TRUE, content |-> <<>>, next |-> k]
    ELSE [raised |-> FALSE, content |-> SubSeq(s, i + 1, k - 1), next |-> k + 1]

\* tokenize_with_meta: the inner loop that accumulates an unquoted token from
\* index i on, an embedded quoted span being kept with its delimiters
RECURSIVE UnquotedWalk(_, _, _)
UnquotedWalk(s, i, buf) ==
    IF i > Len(s) \/ s[i] \in WHITESPACE
    THEN [text |-> buf, next |-> i]
    ELSE IF s[i] \in QuoteChars
    THEN LET k == FirstIn(s, i + 1, {s[i]}) IN
         IF k > Len(s)
         THEN UnquotedWalk(s, k, buf \o SubSeq(s, i, Len(s)))
         ELSE UnquotedWalk(s, k + 1, buf \o SubSeq(s, i, k))
    ELSE UnquotedWalk(s, i + 1, Append(buf, s[i]))

\* tokenize_with_meta: the outer loop from index i on
RECURSIVE TokenizeFrom(_, _, _)
TokenizeFrom(s, i, tokens) ==
    LET j == FirstNotIn(s, i, WHITESPACE) IN
    IF j > Len(s)
    THEN [kind |-> "tokens", tokens |-> tokens]
    ELSE IF s[j] \in QuoteChars
    THEN LET q == ConsumeQuoted(s, j, s[j]) IN
         IF q.raised
         THEN [kind |-> "ValueError", tokens |-> <<>>]
         ELSE TokenizeFrom(s, q.next, Append(tokens, TokenMeta(q.content, TRUE)))
    ELSE LET u == UnquotedWalk(s, j, <<>>) IN
         TokenizeFrom(s, u.next, Append(tokens, TokenMeta(u.text, FALSE)))

\* tokenize_with_meta(op_string)
TokenizeWithMeta(s) == TokenizeFrom(s, 1, <<>>)

\* str.strip()
RECURSIVE Strip(_)
Strip(s) ==
    IF s = <<>> THEN s
    ELSE IF Head(s) \in WHITESPACE THEN Strip(Tail(s))
    ELSE IF s[Len(s)] \in WHITESPACE THEN Strip(SubSeq(s, 1, Len(s) - 1))
    ELSE s

\* ------------------------------------------------------------ key:value
Upper == <<"A", "B", "C", "D", "E", "F", "G", "H", "I", "J", "K", "L", "M",
           "N", "O", "P", "Q", "R", "S", "T", "U", "V", "W", "X", "Y", "Z">>
Lower == <<"a", "b", "c", "d", "e", "f", "g", "h", "i", "j", "k", "l", "m",
           "n", "o", "p", "q", "r", "s", "t", "u", "v", "w", "x", "y", "z">>

\* [A-Za-z] and \d
Letters == SeqToSet(Upper) \cup SeqToSet(Lower)
Digits == {"0", "1", "2", "3", "4", "5", "6", "7", "8", "9"}

\* str.lower()
LowerChar(c) == IF \E i \in 1..Len(Upper) : Upper[i] = c
                THEN Lower[CHOOSE i \in 1..Len(Upper) : Upper[i] = c]
                ELSE c
ToLower(s) == [i \in 1..Len(s) |-> LowerChar(s[i])]

\* ch in s
Contains(s, ch) == \E i \in 1..Len(s) : s[i] = ch

\* s.split(ch, 1) / s.partition(ch), ch being in s: what is before and after
\* its first occurrence
Before(s, ch) == SubSeq(s, 1, FirstIn(s, 1, {ch}) - 1)
After(s, ch) == SubSeq(s, FirstIn(s, 1, {ch}) + 1, Len(s))

\* every character of s is in chars
AllIn(s, chars) == \A i \in 1..Len(s) : s[i] \in chars

\* $ matches at the end of s and before a final newline: s without it
EndsNewline(s) == s # <<>> /\ s[Len(s)] = "\n"
Chop(s) == SubSeq(s, 1, Len(s) - 1)

\* [A-Za-z]{1,3}\d+
CellRefBody(s) ==
    \E k \in 1..3 : /\ k < Len(s)
                    /\ AllIn(SubSeq(s, 1, k), Letters)
                    /\ AllIn(SubSeq(s, k + 1, Len(s)), Digits)

\* [0-9]+
RowRefBody(s) == s # <<>> /\ AllIn(s, Digits)

\* _CELL_REF_RE.match, _ROW_REF_RE.match
CellRef(s) == CellRefBody(s) \/ (EndsNewline(s) /\ CellRefBody(Chop(s)))
RowRef(s) == RowRefBody(s) \/ (EndsNewline(s) /\ RowRefBody(Chop(s)))

\* _is_cell_range
IsCellRange(token) ==
    LET ref == IF Contains(token, "!") THEN After(token, "!") ELSE token IN
    /\ Contains(ref, ":")
    /\ Before(ref, ":") # <<>>
    /\ After(ref, ":") # <<>>
    /\ \/ CellRef(Before(ref, ":")) /\ CellRef(After(ref, ":"))
       \/ RowRef(Before(ref, ":")) /\ RowRef(After(ref, ":"))

\* "->" in token
HasArrow(token) == \E i \in 1..(Len(token) - 1) : token[i] = "-" /\ token[i + 1] = ">"

\* token.startswith(ch)
Starts(token, ch) == token # <<>> /\ token[1] = ch

\* variant: a column range of letters only counts as a cell range too
IsKeyValueNoColumns(token) ==
    /\ ~Starts(token, "@")
    /\ ~HasArrow(token)
    /\ ~Starts(token, "=")
    /\ ~IsCellRange(token)
    /\ ~(Contains(token, ":") /\ Before(token, ":") # <<>> /\ After(token, ":") # <<>>
         /\ AllIn(Before(token, ":"), Letters) /\ AllIn(After(token, ":"), Letters))
    /\ Contains(token, ":")

\* is_key_value
IsKeyValue(token) ==
    /\ ~Starts(token, "@")
    /\ ~HasArrow(token)
    /\ ~Starts(token, "=")
    /\ ~IsCellRange(token)
    /\ Contains(token, ":")

\* variant: no token is a selector
IsSelectorNever(token) == FALSE

\* is_selector
IsSelector(token) == Starts(token, "@")

\* parse_key_value: key and value, the value without its surrounding quotes
ParseKeyValue(token) ==
    LET value == After(token, ":") IN
    [key |-> Before(token, ":"),
     value |-> IF Len(value) >= 2 /\ value[1] = value[Len(value)] /\ value[1] \in QuoteChars
               THEN SubSeq(value, 2, Len(value) - 1)
               ELSE value]

\* --------------------------------------------------------------- parse_op
\* the is_positional argument: None, a predicate for column ranges of letters
\* (B:G), or a predicate that is true of every token
Callbacks == {"None", "columns", "all"}

\* is_positional is not None and is_positional(text)
IsPositional(cb, text) ==
    CASE cb = "None" -> FALSE
      [] cb = "all" -> TRUE
      [] OTHER -> /\ Contains(text, ":")
                  /\ Len(Before(text, ":")) \in 1..3
                  /\ Len(After(text, ":")) \in 1..3
                  /\ AllIn(Before(text, ":"), Letters)
                  /\ AllIn(After(text, ":"), Letters)

ParseError(error, raw) == [kind |-> "ParseError", error |-> error, raw |-> raw]

ParsedOp(verb, positionals, params, selectors, raw) ==
    [kind |-> "ParsedOp", verb |-> verb, positionals |-> positionals, params |-> params,
     selectors |-> selectors, raw |-> raw]

\* variant: the key:value test comes before the test for a quoted token
ClassifyTokenKeyValueFirst(token, cb, acc) ==
    LET text == token.text IN
    IF IsSelector(text) THEN [acc EXCEPT !.selectors = Append(@, text)]
    ELSE IF IsKeyValue(text)
    THEN [acc EXCEPT !.params = Put(@, ParseKeyValue(text).key, ParseKeyValue(text).value)]
    ELSE IF token.was_quoted THEN [acc EXCEPT !.positionals = Append(@, text)]
    ELSE IF IsPositional(cb, text) THEN [acc EXCEPT !.positionals = Append(@, text)]
    ELSE [acc EXCEPT !.positionals = Append(@, text)]

\* parse_op: the body of the loop, for one token
ClassifyToken(token, cb, acc) ==
    LET text == token.text IN
    IF IsSelector(text) THEN [acc EXCEPT !.selectors = Append(@, text)]
    ELSE IF token.was_quoted THEN [acc EXCEPT !.positionals = Append(@, text)]
    ELSE IF IsPositional(cb, text) THEN [acc EXCEPT !.positionals = Append(@, text)]
    ELSE IF IsKeyValue(text)
    THEN [acc EXCEPT !.params = Put(@, ParseKeyValue(text).key, ParseKeyValue(text).value)]
    ELSE [acc EXCEPT !.positionals = Append(@, text)]

\* variant: the tokens are taken from the last to the first
RECURSIVE ClassifyBackwards(_, _, _)
ClassifyBackwards(rest, cb, acc) ==
    IF rest = <<>> THEN acc
    ELSE ClassifyBackwards(SubSeq(rest, 1, Len(rest) - 1), cb,
                           ClassifyToken(rest[Len(rest)], cb, acc))

\* parse_op: the loop over the tokens after the verb
RECURSIVE Classify(_, _, _)
Classify(rest, cb, acc) ==
    IF rest = <<>> THEN acc
    ELSE Classify(Tail(rest), cb, ClassifyToken(Head(rest), cb, acc))

\* variant: an unclosed quote gives an operation with no verb
ParseOpSwallowsError(op_string, cb) ==
    LET raw == Strip(op_string)
        t == TokenizeWithMeta(raw)
    IN IF raw = <<>> THEN ParseError("Empty op string", raw)
       ELSE IF t.kind = "ValueError" \/ t.tokens = <<>>
       THEN ParsedOp(<<>>, <<>>, EmptyParams, <<>>, raw)
       ELSE Classify(Tail(t.tokens), cb,
                     ParsedOp(ToLower(t.tokens[1].text), <<>>, EmptyParams, <<>>, raw))

\* parse_op(op_string, is_positional)
ParseOp(op_string, cb) ==
    LET raw == Strip(op_string)
        t == TokenizeWithMeta(raw)
    IN IF raw = <<>> THEN ParseError("Empty op string", raw)
       ELSE IF t.kind = "ValueError"
       THEN ParseError("Tokenization failed: No closing quotation", raw)
       ELSE IF t.tokens = <<>> THEN ParseError("No tokens after tokenization", raw)
       ELSE Classify(Tail(t.tokens), cb,
                     ParsedOp(ToLower(t.tokens[1].text), <<>>, EmptyParams, <<>>, raw))

\* ------------------------------------------------- the functions, applied
\* the longest exhaustive input string, and the most words after the verb
MaxChars == 4
MaxWords == 2

\* characters of the exhaustive inputs
Alphabet == {"a", "n", " ", "\"", "'", "\\", ":", "@"}

RECURSIVE Strings(_)
Strings(n) ==
    IF n = 0 THEN {<<>>}
    ELSE LET shorter == Strings(n - 1) IN
         shorter \cup {Append(s, c) : s \in shorter, c \in Alphabet}

\* words of an op string: plain, key:value (one key twice), selector, quoted
\* key:value and selector, cell range, formula, column range, embedded quotes,
\* arrow
Words == {<<"s", "v">>, <<"d">>,
          <<"k", ":", "v">>, <<"k", ":", "w">>, <<"t", ":", "\"", "a", " ", "b", "\"">>,
          <<"@", "x">>, <<"@", "x", ":", "y">>,
          <<"\"", "a", ":", "b", "\"">>, <<"'", "@", "x", "'">>,
          <<"A", "1", ":", "F", "1">>, <<"=", "A", "1", ":", "B", "2">>,
          <<"B", ":", "G">>, <<"a", "-", ">", "b">>, <<"u", ":", "a", ":", "b">>}

RECURSIVE Sentences(_)
Sentences(n) ==
    IF n = 0 THEN {<<"A", "d", "d">>}
    ELSE LET shorter == Sentences(n - 1) IN
         shorter \cup {s \o <<" ">> \o w : s \in shorter, w \in Words}

\* tokens for is_key_value, as parse_op passes them (the text of an unquoted
\* token, so without whitespace): an optional prefix, and two sides around a
\* colon
Prefixes == {<<>>, <<"@">>, <<"=">>, <<"S", "!">>, <<"!">>, <<"1", ":", "1", "!">>}
Sides == {<<>>, <<"a">>, <<"1">>, <<"A", "1">>, <<"a", "b", "c", "1", "2">>,
          <<"a", "b", "c", "d", "1">>, <<"1", "a">>, <<"-", ">">>,
          <<"a", ":", "1">>}
Candidates == {p \o l \o <<":">> \o r : p \in Prefixes, l \in Sides, r \in Sides}
                  \cup {p \o l : p \in Prefixes, l \in Sides}

Input(fn, s, cb) == [fn |-> fn, s |-> s, cb |-> cb]

\* the calls made: of a function fn, on a string s, with the predicate cb
InitParse ==
    /\ Start
    /\ hooks = "mock"
    /\ \/ \E s \in Strings(MaxChars) : pin \in {Input("tokenize", s, ""), Input("parse_op", s, "None")}
       \/ \E s \in Sentences(MaxWords), cb \in Callbacks : pin = Input("parse_op", s, cb)
       \/ \E s \in Candidates : pin = Input("is_key_value", s, "")

Called == pout # NotCalled

\* tokenize_with_meta(pin.s)
CallTokenize ==
    /\ ~Called
    /\ pin.fn = "tokenize"
    /\ pout' = TokenizeWithMeta(pin.s)
    /\ UNCHANGED <<events, cursor, checkpoints, nextId, logHist, model, file_path,
                   hookCalls, sess, broken, snapshot, hooks, batch, pin>>

\* is_key_value(pin.s)
CallIsKeyValue ==
    /\ ~Called
    /\ pin.fn = "is_key_value"
    /\ pout' = [kind |-> "bool", value |-> IsKeyValue(pin.s)]
    /\ UNCHANGED <<events, cursor, checkpoints, nextId, logHist, model, file_path,
                   hookCalls, sess, broken, snapshot, hooks, batch, pin>>

\* parse_op(pin.s, is_positional = pin.cb)
CallParseOp ==
    /\ ~Called
    /\ pin.fn = "parse_op"
    /\ pout' = ParseOp(pin.s, pin.cb)
    /\ UNCHANGED <<events, cursor, checkpoints, nextId, logHist, model, file_path,
                   hookCalls, sess, broken, snapshot, hooks, batch, pin>>

NextParse == CallTokenize \/ CallIsKeyValue \/ CallParseOp

SpecParse == InitParse /\ [][NextParse]_vars

\* ======================================================= create_fcp_server
\* An op string of a batch, by what parse_op and the adapter's dispatch_op
\* make of it:
\*   "good"       parses; dispatch_op mutates the model, logs one event and
\*                returns OpResult(True, "done")
\*   "bad"        parses; dispatch_op returns OpResult(False, "no such thing")
\*   "mute"       parses; dispatch_op returns OpResult(False, "")
\*   "unparsable" parse_op returns a ParseError
OpKinds == {"good", "bad", "mute", "unparsable"}

\* the lists of at most n ops
RECURSIVE OpLists(_)
OpLists(n) ==
    IF n = 0 THEN {<<>>}
    ELSE OpLists(n - 1) \cup {Append(l, k) : l \in {x \in OpLists(n - 1) : Len(x) = n - 1},
                                             k \in OpKinds}

\* the batches given to the tool
BatchInputs == OpLists(MaxSessionSlots)

\* isinstance(parse_op(op_str), ParseError)
IsParseError(op) == op = "unparsable"

\* adapter.dispatch_op(parsed, model, log): the OpResult
OpResult(op) ==
    CASE op = "good" -> [success |-> TRUE, message |-> "done"]
      [] op = "bad" -> [success |-> FALSE, message |-> "no such thing"]
      [] OTHER -> [success |-> FALSE, message |-> ""]

\* the line "! Batch failed at op i: ... State rolled back"
BatchFailed(i) == Line(FALSE, "Batch failed", i)

\* execute_ops: the loop over ops from the i-th on
RECURSIVE BatchWalk(_, _, _)
BatchWalk(ops, i, acc) ==
    IF i > Len(ops) THEN acc
    ELSE IF IsParseError(ops[i])
    THEN IF acc.snap
         THEN [acc EXCEPT !.parsed = i, !.model = acc.pre, !.restored = Append(@, acc.pre),
                          !.out = <<BatchFailed(i)>>]
         ELSE BatchWalk(ops, i + 1,
                 [acc EXCEPT !.parsed = i, !.out = Append(@, Line(FALSE, "parse error", i))])
    ELSE LET r == OpResult(ops[i])
             done == IF r.success
                     THEN [acc EXCEPT !.parsed = i, !.dispatched = @ + 1,
                                      !.model = ApplyEvent(Ev(acc.nextId), @),
                                      !.events = Append(Truncate(@, acc.cursor), Ev(acc.nextId)),
                                      !.checkpoints = Prune(@, acc.events, acc.cursor),
                                      !.cursor = @ + 1,
                                      !.nextId = @ + 1]
                     ELSE [acc EXCEPT !.parsed = i, !.dispatched = @ + 1]
         IN IF ~r.success /\ r.message # "" /\ acc.snap
            THEN [done EXCEPT !.model = acc.pre, !.restored = Append(@, acc.pre),
                              !.out = <<BatchFailed(i)>>]
            ELSE BatchWalk(ops, i + 1,
                    [done EXCEPT !.out = Append(@, Line(r.success, r.message, i))])

\* execute_ops(ops), snap saying that adapter.take_snapshot returned a snapshot
ExecuteOps(ops, snap) ==
    /\ nextId + Len(ops) <= MaxSessionSlots + 1
    /\ IF ~model.present
       THEN /\ batch' = [ops |-> ops, snap |-> FALSE, pre |-> model,
                         out |-> <<Line(FALSE, "No model loaded", 0)>>, parsed |-> 0,
                         dispatched |-> 0, restored |-> <<>>,
                         log |-> [events |-> events, cursor |-> cursor,
                                  checkpoints |-> checkpoints]]
            /\ UNCHANGED <<model, events, cursor, checkpoints>>
       ELSE LET w == BatchWalk(ops, 1,
                        [snap |-> snap, pre |-> model, model |-> model, events |-> events,
                         cursor |-> cursor, checkpoints |-> checkpoints, nextId |-> nextId,
                         out |-> <<>>, parsed |-> 0, dispatched |-> 0, restored |-> <<>>])
            IN
            /\ batch' = [ops |-> ops, snap |-> snap, pre |-> model, out |-> w.out,
                         parsed |-> w.parsed, dispatched |-> w.dispatched,
                         restored |-> w.restored,
                         log |-> [events |-> events, cursor |-> cursor,
                                  checkpoints |-> checkpoints]]
            /\ model' = w.model
            /\ events' = w.events
            /\ cursor' = w.cursor
            /\ checkpoints' = w.checkpoints
    /\ nextId' = nextId + Len(ops)
    /\ UNCHANGED <<file_path, hookCalls, sess, broken, snapshot, hooks, parseVars>>
    /\ UNCHANGED logHist

\* the server built by create_fcp_server: its dispatcher has the bridge hooks
InitServer == Start /\ hooks = "bridge" /\ pin = NoInput

NextServer ==
    \/ HandleNew(<<>>, NoPlan)
    \/ \E ops \in BatchInputs, snap \in BOOLEAN : ExecuteOps(ops, snap)

SpecServer == InitServer /\ [][NextServer]_vars

\* --------------------------------------------------------- shorthands
\* the last call was append or checkpoint and it truncated a redo tail
LastTruncated ==
    /\ last.op \in {"append", "checkpoint"}
    /\ last.pre.cursor < Len(last.pre.events)

\* the domain events of the applied prefix events[0..cur)
Applied(evs, cur) == DomainEvents(SliceTo(evs, cur))

\* the domain events of the redo tail events[cur..)
RedoTail(evs, cur) == DomainEvents(SubSeq(evs, cur + 1, Len(evs)))

\* the last n elements of a sequence
LastN(s, n) == SubSeq(s, Len(s) - n + 1, Len(s))

NoSentinel(evs) == \A i \in 1..Len(evs) : ~IsCheckpoint(evs[i])

\* ------------------------------------------------------------------ C1
\* C1: in every state reachable by append, checkpoint, undo, undo_to, redo
\* and recent from an empty log, 0 <= cursor <= length(events).
CursorInBounds == 0 <= cursor /\ cursor <= Len(events)

\* an undo that asked for more than was applied stopped at cursor 0 with the
\* whole log as redo tail
CursorInBoundsWitness ==
    /\ last.op = "undo"
    /\ last.cnt = 2
    /\ Len(last.ret.items) = 1
    /\ cursor = 0
    /\ Len(events) >= 2

\* ------------------------------------------------------------------ C2
\* C2: when append or checkpoint is called with cursor < length(events), the
\* redo tail is discarded: on return cursor = length(events), the slots
\* events[0..old cursor) are unchanged, a redo() called next returns an empty
\* list and leaves cursor where it is; and no discarded event is in the log
\* or in the result of any later call.
TruncationDiscardsTail ==
    /\ LastTruncated =>
          /\ cursor = Len(events)
          /\ cursor = last.pre.cursor + 1
          /\ SliceTo(events, last.pre.cursor) = SliceTo(last.pre.events, last.pre.cursor)
          /\ RedoWalk(events, cursor, 1, <<>>) =
                [cursor |-> cursor, items |-> <<>>, raised |-> FALSE]
          /\ RedoTail(last.pre.events, last.pre.cursor) # <<>> => discarded # {}
          /\ SeqToSet(RedoTail(last.pre.events, last.pre.cursor)) \subseteq discarded
    /\ \A e \in discarded :
          /\ e \notin SeqToSet(events)
          /\ e \notin SeqToSet(last.ret.items)

\* an append on a non-empty applied prefix dropped a domain event of the tail
TruncationDiscardsTailWitness ==
    /\ last.op = "append"
    /\ last.pre.cursor >= 1
    /\ last.pre.cursor < Len(last.pre.events)
    /\ RedoTail(last.pre.events, last.pre.cursor) # <<>>

\* ------------------------------------------------------------------ C3
\* the checkpoint map on which the truncation of the last call worked:
\* checkpoint(name) has recorded name at the cursor before it truncates
RecordedAtTruncation ==
    IF last.op = "checkpoint"
    THEN [n \in DOMAIN last.pre.checkpoints \cup {last.name} |->
             IF n = last.name THEN last.pre.cursor ELSE last.pre.checkpoints[n]]
    ELSE last.pre.checkpoints

\* C3: when append or checkpoint truncates a redo tail at cursor c, every
\* checkpoint recorded beyond c is removed from the map (undo_to on it then
\* returns None) and every checkpoint recorded at a position <= c is kept
\* with its position.
CheckpointInvalidation ==
    LastTruncated =>
       /\ DOMAIN checkpoints \subseteq DOMAIN RecordedAtTruncation
       /\ \A n \in DOMAIN RecordedAtTruncation :
             IF RecordedAtTruncation[n] > last.pre.cursor
             THEN /\ n \notin DOMAIN checkpoints
                  /\ UndoToResult(events, cursor, checkpoints, n).ret = NoneRet
             ELSE /\ n \in DOMAIN checkpoints
                  /\ checkpoints[n] = RecordedAtTruncation[n]

\* one truncation removed a checkpoint and kept another
CheckpointInvalidationWitness ==
    /\ LastTruncated
    /\ \E n \in DOMAIN last.pre.checkpoints :
          /\ last.pre.checkpoints[n] > last.pre.cursor
          /\ n \notin DOMAIN checkpoints
    /\ \E m \in DOMAIN last.pre.checkpoints :
          /\ last.pre.checkpoints[m] <= last.pre.cursor
          /\ m \in DOMAIN checkpoints

\* ------------------------------------------------------------------ C4
\* C4 as stated: after any mutating call (append, checkpoint, undo, undo_to,
\* redo) returns, every recorded checkpoint position is <= cursor.
CheckpointsWithinCursorAfterAnyCall ==
    last.op \in {"append", "checkpoint", "undo", "undo_to", "redo"} =>
       \A n \in DOMAIN checkpoints : checkpoints[n] <= cursor

\* C4 as amended: after append or checkpoint returns, every recorded
\* checkpoint position is <= cursor; undo, undo_to and redo leave the map as
\* it was.
CheckpointsWithinCursorAfterAppend ==
    /\ last.op \in {"append", "checkpoint"} =>
          \A n \in DOMAIN checkpoints : checkpoints[n] <= cursor
    /\ last.op \in {"undo", "undo_to", "redo"} => checkpoints = last.pre.checkpoints

\* a checkpoint call truncated a tail and the map holds two names afterwards
CheckpointsWithinCursorWitness ==
    /\ last.op = "checkpoint"
    /\ last.pre.cursor < Len(last.pre.events)
    /\ Cardinality(DOMAIN checkpoints) = 2

\* ------------------------------------------------------------------ C5
\* C5: undo(count) never raises and, with d domain events in the applied
\* prefix, returns the min(count, d) most recently applied domain events,
\* most recent first, no sentinel among them; cursor goes down by one per
\* slot walked, sentinels included; with d = 0 the result is empty.
UndoReturnsMostRecentFirst ==
    last.op = "undo" =>
       LET applied == Applied(last.pre.events, last.pre.cursor)
           d == Len(applied)
           m == Min(last.cnt, d)
       IN
       /\ last.ret.kind = "list"
       /\ events = last.pre.events
       /\ last.cnt >= 0 =>
             /\ Len(last.ret.items) = m
             /\ last.ret.items = Reverse(LastN(applied, m))
             /\ \A i \in 1..Len(last.ret.items) : ~IsCheckpoint(last.ret.items[i])
             /\ cursor <= last.pre.cursor
             /\ DomainEvents(SubSeq(events, cursor + 1, last.pre.cursor)) = LastN(applied, m)
             /\ (last.cnt > d) => cursor = 0
             /\ (last.cnt = 0) => cursor = last.pre.cursor
             /\ (last.cnt >= 1 /\ last.cnt <= d) => ~IsCheckpoint(events[cursor + 1])
       /\ d = 0 => last.ret.items = <<>>

\* undo(2) with three applied domain events walked over a sentinel
UndoReturnsWitness ==
    /\ last.op = "undo"
    /\ last.cnt = 2
    /\ Len(Applied(last.pre.events, last.pre.cursor)) = 3
    /\ Len(last.ret.items) = 2
    /\ last.pre.cursor - cursor = 3

\* ------------------------------------------------------------------ C6
\* C6: redo(count) never raises and, with r domain events in the redo tail,
\* returns the next min(count, r) domain events in chronological order, no
\* sentinel among them; cursor goes up by one per slot walked, sentinels
\* included.
RedoReturnsChronological ==
    last.op = "redo" =>
       LET tail == RedoTail(last.pre.events, last.pre.cursor)
           r == Len(tail)
           m == Min(last.cnt, r)
       IN
       /\ last.ret.kind = "list"
       /\ events = last.pre.events
       /\ last.cnt >= 0 =>
             /\ Len(last.ret.items) = m
             /\ last.ret.items = SubSeq(tail, 1, m)
             /\ \A i \in 1..Len(last.ret.items) : ~IsCheckpoint(last.ret.items[i])
             /\ cursor >= last.pre.cursor
             /\ DomainEvents(SubSeq(events, last.pre.cursor + 1, cursor)) = SubSeq(tail, 1, m)
             /\ (last.cnt > r) => cursor = Len(events)
             /\ (last.cnt = 0) => cursor = last.pre.cursor
             /\ (last.cnt >= 1 /\ last.cnt <= r) => ~IsCheckpoint(events[cursor])

\* redo(2) with three domain events in the tail walked over a sentinel
RedoReturnsWitness ==
    /\ last.op = "redo"
    /\ last.cnt = 2
    /\ Len(RedoTail(last.pre.events, last.pre.cursor)) = 3
    /\ Len(last.ret.items) = 2
    /\ cursor - last.pre.cursor = 3

\* ------------------------------------------------------------------ C7
\* the log before the undo held N domain events, no sentinel, all applied,
\* and undo(N) was directly followed by redo(N)
UndoAllThenRedoAll ==
    /\ last.op = "redo"
    /\ prev.op = "undo"
    /\ prev.cnt = last.cnt
    /\ prev.cnt = Len(prev.pre.events)
    /\ prev.pre.cursor = Len(prev.pre.events)
    /\ NoSentinel(prev.pre.events)

\* C7: for a log of N appended domain events (no checkpoint), undo(N) then
\* redo(N) brings cursor back to N, the redo result is the reverse of the
\* undo result, and the events list is unchanged.
UndoRedoInverse ==
    UndoAllThenRedoAll =>
       /\ cursor = prev.cnt
       /\ Len(prev.ret.items) = prev.cnt
       /\ last.ret = ListRet(Reverse(prev.ret.items))
       /\ last.ret.items = prev.pre.events
       /\ events = prev.pre.events

\* the pair happened on a log of at least two events
UndoRedoInverseWitness ==
    /\ UndoAllThenRedoAll
    /\ prev.cnt >= 2
    /\ last.pre.cursor = 0

\* ------------------------------------------------------------------ C8
\* C8: undo_to(name) with name not in the checkpoint map returns None, which
\* is not the empty list, and leaves events, cursor and checkpoints as they
\* were.
UndoToUnknownReturnsNone ==
    (last.op = "undo_to" /\ last.name \notin DOMAIN last.pre.checkpoints) =>
       /\ last.ret = NoneRet
       /\ last.ret # ListRet(<<>>)
       /\ events = last.pre.events
       /\ cursor = last.pre.cursor
       /\ checkpoints = last.pre.checkpoints

\* undo_to on a name that is not in the map, on a log with applied events
\* and another checkpoint
UndoToUnknownWitness ==
    /\ last.op = "undo_to"
    /\ last.name \notin DOMAIN last.pre.checkpoints
    /\ last.pre.checkpoints # EmptyMap
    /\ Applied(last.pre.events, last.pre.cursor) # <<>>

\* ------------------------------------------------------------------ C9
\* C9: whenever undo_to(name) returns a list (name is in the map), cursor
\* equals checkpoints[name] on return.
UndoToLandsOnCheckpoint ==
    (last.op = "undo_to" /\ last.ret.kind # "none") =>
       cursor = checkpoints[last.name]

\* ----------------------------------------------------------------- C10
\* C10: if checkpoint(name) was followed only by appends of e1..ek (other
\* checkpoints allowed in between), undo_to(name) returns [ek, ..., e1] and
\* the domain events of the applied prefix are afterwards those that were
\* applied when checkpoint(name) was called.
CheckpointRoundTrip ==
    (last.op = "undo_to" /\ last.pre.clean[last.name]) =>
       /\ last.ret = ListRet(Reverse(last.pre.since[last.name]))
       /\ Applied(events, cursor) = DomainEvents(last.pre.marked[last.name])
       /\ events = last.pre.events

\* the round trip undid two events and left one applied
CheckpointRoundTripWitness ==
    /\ last.op = "undo_to"
    /\ last.pre.clean[last.name]
    /\ Len(last.ret.items) = 2
    /\ Applied(events, cursor) # <<>>

\* ----------------------------------------------------------------- C11
\* undo_to(name) returned a list and cursor is on the recorded position
UndoToLanded ==
    /\ last.op = "undo_to"
    /\ last.ret.kind = "list"
    /\ cursor = checkpoints[last.name]

CheckpointRecordsCursor ==
    last.op = "checkpoint" =>
       /\ last.name \in DOMAIN checkpoints
       /\ checkpoints[last.name] = last.pre.cursor
       /\ Len(events) = last.pre.cursor + 1
       /\ GetItem(events, last.pre.cursor) = CheckpointEvent(last.name)
       /\ SliceTo(events, last.pre.cursor) = SliceTo(last.pre.events, last.pre.cursor)
       /\ cursor = last.pre.cursor + 1
       /\ \A n \in DOMAIN checkpoints \ {last.name} :
             /\ n \in DOMAIN last.pre.checkpoints
             /\ checkpoints[n] = last.pre.checkpoints[n]

\* a name recorded earlier at another position is checkpointed again while
\* another checkpoint is retained
CheckpointRecordsCursorWitness ==
    /\ last.op = "checkpoint"
    /\ last.name \in DOMAIN last.pre.checkpoints
    /\ last.pre.checkpoints[last.name] # last.pre.cursor
    /\ DOMAIN checkpoints \ {last.name} # {}

\* ----------------------------------------------------------------- C13
\* C13: recent(count) returns the last min(count, d) domain events of the
\* applied prefix, oldest first, no sentinel and nothing of the redo tail
\* among them, and leaves cursor, events and checkpoints unchanged.
RecentReturnsOldestFirst ==
    last.op = "recent" =>
       LET applied == Applied(last.pre.events, last.pre.cursor)
           m == Min(last.cnt, Len(applied))
       IN
       /\ last.ret.kind = "list"
       /\ last.cnt >= 0 => last.ret.items = LastN(applied, m)
       /\ last.cnt < 0 => last.ret.items = <<>>
       /\ SeqToSet(last.ret.items) \cap
             SeqToSet(SubSeq(last.pre.events, last.pre.cursor + 1, Len(last.pre.events))) = {}
       /\ \A i \in 1..Len(last.ret.items) : ~IsCheckpoint(last.ret.items[i])
       /\ cursor = last.pre.cursor
       /\ events = last.pre.events
       /\ checkpoints = last.pre.checkpoints

\* recent(2) skipped a sentinel next to the cursor while a redo tail exists
RecentReturnsWitness ==
    /\ last.op = "recent"
    /\ last.cnt = 2
    /\ Len(last.ret.items) = 2
    /\ cursor < Len(events)
    /\ cursor >= 1
    /\ IsCheckpoint(GetItem(events, cursor - 1))

\* ================================================ SessionDispatcher claims
SessionCommands == {"new", "open", "save", "checkpoint", "undo", "redo"}

\* the hooks whose exception the handler catches in the dispatch just made
CaughtHooks ==
    CASE sess.cmd = "new" -> {"on_new"}
      [] sess.cmd = "open" -> {"on_open", "on_rebuild_indices"}
      [] sess.cmd = "save" -> {"on_save"}
      [] OTHER -> {}

\* ----------------------------------------------------------------- C14
\* C14 as stated: dispatch never raises; whatever hook fails, the call
\* returns a single result line.
DispatchNeverRaises == sess.res.kind = "line"

\* C14: dispatch returns a single result line unless a callback of undo/redo
\* fails: a failure of on_new, on_open, on_save, or of on_rebuild_indices
\* during open, is turned into a '!' line; a failure of reverse_event,
\* replay_event, or of on_rebuild_indices during undo/redo leaves dispatch as
\* an exception.
HookFailureHandling ==
    /\ sess.failed = "" => sess.res.kind = "line"
    /\ sess.failed \in CaughtHooks => sess.res.kind = "line" /\ ~sess.res.ok
    /\ sess.failed # "" /\ sess.failed \notin CaughtHooks =>
          /\ sess.cmd \in {"undo", "redo"}
          /\ sess.failed \in {"reverse_event", "replay_event", "on_rebuild_indices"}
          /\ sess.res = Raised(sess.failed)

\* reverse_event raised at its second call of an undo to a checkpoint
HookFailureWitness ==
    /\ sess.cmd = "undo"
    /\ sess.failed = "reverse_event"
    /\ Len(hookCalls) = 2
    /\ sess.res.kind = "raise"

\* ----------------------------------------------------------------- C15
\* C15: after every successful new or open the session's event log is empty
\* (no events, cursor 0, no checkpoints), so an undo, redo or undo to:<name>
\* dispatched on it finds nothing recorded before the model swap.
LogEmptyAfterModelSwap ==
    /\ sess.cmd \in {"new", "open"} /\ sess.res.ok =>
          /\ events = <<>>
          /\ cursor = 0
          /\ checkpoints = EmptyMap
    /\ sess.cmd \in {"undo", "redo"} /\ sess.pre.model.present /\ sess.pre.events = <<>> =>
          /\ ~sess.res.ok
          /\ hookCalls = <<>>
          /\ events = <<>>
          /\ cursor = 0

\* a successful new replaced a log that held a checkpoint and a redo tail
LogEmptyAfterModelSwapWitness ==
    /\ sess.cmd = "new"
    /\ sess.res.ok
    /\ sess.pre.checkpoints # EmptyMap
    /\ sess.pre.cursor < Len(sess.pre.events)
    /\ sess.pre.cursor > 0
    /\ events = <<>>

\* ----------------------------------------------------------------- C16
\* C16: while reverse_event and replay_event have not failed, after any
\* sequence of logged mutations and checkpoint, undo, undo to:<name> and redo
\* dispatches since the model was created, the model holds exactly the domain
\* events of the applied prefix events[0..cursor), in order; after a
\* successful undo to:<name> it equals its state when checkpoint <name> was
\* dispatched.
ModelLogConsistency ==
    model.present /\ ~broken =>
       /\ model.data = Applied(events, cursor)
       /\ sess.cmd = "undo" /\ sess.res.ok /\ Truthy(UndoToName(sess.args, NONE)) =>
             model.data = snapshot[UndoToName(sess.args, NONE)]

\* undo to:v1 reversed a mutation and brought back the non-empty model of the
\* checkpoint
ModelLogConsistencyWitness ==
    /\ sess.cmd = "undo"
    /\ sess.res.ok
    /\ UndoToName(sess.args, NONE) = "v1"
    /\ snapshot["v1"] # <<>>
    /\ model.data = snapshot["v1"]
    /\ sess.pre.model.data # model.data

\* ----------------------------------------------------------------- C17
\* the calls callback(ev, model) for the events of items, in that order
CallsFor(cb, items) == [i \in 1..Len(items) |-> HookCall(cb, items[i], "")]

\* C17: a successful undo calls reverse_event once per returned event, most
\* recent first (a successful redo calls replay_event once per event, oldest
\* first), then on_rebuild_indices exactly once, last; an undo/redo that
\* returns a failure line calls none of them.
UndoRedoHookOrder ==
    /\ sess.cmd = "undo" /\ sess.res.kind = "line" /\ sess.res.ok =>
          hookCalls =
             Append(CallsFor("reverse_event",
                             Reverse(DomainEvents(SubSeq(sess.pre.events, cursor + 1,
                                                         sess.pre.cursor)))),
                    HookCall("on_rebuild_indices", NoEv, ""))
    /\ sess.cmd = "redo" /\ sess.res.kind = "line" /\ sess.res.ok =>
          hookCalls =
             Append(CallsFor("replay_event",
                             DomainEvents(SubSeq(sess.pre.events, sess.pre.cursor + 1,
                                                 cursor))),
                    HookCall("on_rebuild_indices", NoEv, ""))
    /\ sess.cmd \in {"undo", "redo"} /\ sess.res.kind = "line" /\ ~sess.res.ok =>
          hookCalls = <<>>

\* a successful undo to a checkpoint reversed two events and then rebuilt
UndoRedoHookOrderWitness ==
    /\ sess.cmd = "undo"
    /\ sess.res.kind = "line"
    /\ sess.res.ok
    /\ Len(hookCalls) = 3
    /\ hookCalls[1].ev # hookCalls[2].ev
    /\ hookCalls[3].hook = "on_rebuild_indices"

\* ----------------------------------------------------------------- C18
\* the as:<path> tokens that carry a path, and the bare tokens that are no flag
AsTokens(args) == SelectSeq(args, LAMBDA a : StartsWith(a, "as:") /\ Truthy(a.body))
BareTokens(args) ==
    SelectSeq(args, LAMBDA a : ~StartsWith(a, "as:") /\ ~StartsWith(a, "-"))

\* the target by the stated priority: as:<path>, else a bare token, else the
\* remembered file_path
PriorityPath(args, remembered) ==
    IF AsTokens(args) # <<>> THEN AsTokens(args)[1].body
    ELSE IF BareTokens(args) # <<>> THEN Text(BareTokens(args)[1])
    ELSE remembered

\* C18: save with an active model resolves its target as the path of an
\* as:<path> token if present, otherwise a bare non-flag token, otherwise the
\* remembered file_path, and hands it to on_save; when none yields a path it
\* returns 'No file path set' without calling on_save.
SavePathPriority ==
    sess.cmd = "save" /\ sess.pre.model.present =>
       IF Truthy(PriorityPath(sess.args, sess.pre.file_path))
       THEN hookCalls = <<HookCall("on_save", NoEv, PriorityPath(sess.args, sess.pre.file_path))>>
       ELSE /\ hookCalls = <<>>
            /\ sess.res = Line(FALSE, "No file path set", "")

\* ----------------------------------------------------------------- C19
\* C19: save changes the remembered file_path only when on_save succeeds; when
\* on_save raises, dispatch returns a failure line and file_path keeps the
\* value it had before the call.
SaveFailureKeepsFilePath ==
    sess.cmd = "save" /\ sess.failed = "on_save" =>
       /\ sess.res.kind = "line"
       /\ ~sess.res.ok
       /\ file_path = sess.pre.file_path

\* ----------------------------------------------------------------- C20
\* the dispatch just made had to be rejected before doing any work
RejectedEarly ==
    \/ sess.cmd \in UnknownCommands
    \/ sess.cmd \in {"open", "checkpoint"} /\ sess.args = <<>>
    \/ sess.cmd \in {"save", "undo", "redo"} /\ ~sess.pre.model.present

\* C20: a dispatch rejected before doing any work (unknown or empty verb, open
\* without a path, checkpoint without a name, save/undo/redo with no active
\* model) returns a '!' line, calls no hook or callback, and leaves model,
\* file_path, events, cursor and checkpoints as they were.
RejectedLeavesSessionUnchanged ==
    RejectedEarly =>
       /\ sess.res.kind = "line"
       /\ ~sess.res.ok
       /\ hookCalls = <<>>
       /\ model = sess.pre.model
       /\ file_path = sess.pre.file_path
       /\ events = sess.pre.events
       /\ cursor = sess.pre.cursor
       /\ checkpoints = sess.pre.checkpoints

\* undo to:v1 was rejected for want of a model although the log holds the
\* checkpoint v1
RejectedLeavesSessionUnchangedWitness ==
    /\ sess.cmd = "undo"
    /\ ~sess.pre.model.present
    /\ UndoToName(sess.args, NONE) = "v1"
    /\ "v1" \in DOMAIN checkpoints
    /\ cursor > 0

\* ----------------------------------------------------------------- C21
\* the value of the last explicit title:<value> token of args (NONE without one)
RECURSIVE ExplicitTitle(_, _)
ExplicitTitle(args, title) ==
    IF args = <<>> THEN title
    ELSE ExplicitTitle(Tail(args),
                       IF StartsWith(Head(args), "title:") THEN Head(args).body ELSE title)

\* C21: in new, a bare token without a colon is the title only if the command
\* gives no explicit title:<value> token; when both are present the explicit
\* value is the one passed to on_new.
ExplicitTitleWins ==
    sess.cmd = "new" /\ ExplicitTitle(sess.args, NONE) # NONE =>
       /\ Len(hookCalls) = 1
       /\ hookCalls[1].hook = "on_new"
       /\ hookCalls[1].path = ExplicitTitle(sess.args, NONE)

\* ----------------------------------------------------------------- C22
\* the count written after redo (1 without one)
RedoCount(args) == IF args # <<>> /\ Text(args[1]) = "2" THEN 2 ELSE 1

\* the first n elements of s, all of s when it is shorter
FirstN(s, n) == SubSeq(s, 1, Min(n, Len(s)))

\* C22: redo <count> replays up to <count> domain events of the redo tail in
\* forward order in one dispatch; redo without a count replays one.
RedoReplaysCount ==
    sess.cmd = "redo" /\ sess.pre.model.present /\ sess.failed = "" =>
       LET tail == RedoTail(sess.pre.events, sess.pre.cursor)
           want == FirstN(tail, RedoCount(sess.args))
       IN IF want = <<>>
          THEN hookCalls = <<>>
          ELSE hookCalls = Append(CallsFor("replay_event", want),
                                  HookCall("on_rebuild_indices", NoEv, ""))

\* ----------------------------------------------------------------- C30
\* C30: the success line of new names the title given in the command (the
\* bare or quoted title token), whichever hooks the dispatcher was built with.
NewLineNamesTitle ==
    sess.cmd = "new" /\ sess.res.ok /\ Positionals(sess.args) # <<>> =>
       sess.res = Line(TRUE, "New session", Text(Positionals(sess.args)[1]))

\* ================================================= create_fcp_server claims
\* ----------------------------------------------------------------- C23
\* the op fails: a parse failure, or dispatch_op answering success = false
OpFails(op) == IsParseError(op) \/ ~OpResult(op).success

\* the positions of the failing ops of a batch
FailingOps(ops) == {i \in 1..Len(ops) : OpFails(ops[i])}

\* the first of them
FirstFailing(ops) == CHOOSE i \in FailingOps(ops) : \A j \in FailingOps(ops) : i <= j

\* C23: when the adapter gave a snapshot before the batch, the first op that
\* fails (parse failure or success = false) makes restore_snapshot be applied
\* exactly once with that snapshot, no later op is parsed or dispatched and
\* the batch answers a single failure line; restore_snapshot is never applied
\* when no op fails.
BatchAtomicity ==
    batch.pre.present /\ batch.snap =>
       IF FailingOps(batch.ops) = {}
       THEN batch.restored = <<>>
       ELSE /\ batch.restored = <<batch.pre>>
            /\ model = batch.pre
            /\ batch.parsed = FirstFailing(batch.ops)
            /\ batch.dispatched <= FirstFailing(batch.ops)
            /\ Len(batch.out) = 1
            /\ ~batch.out[1].ok

\* ------------------------------------------------ tokenizer, parse_op claims
ParseOpCalled == Called /\ pin.fn = "parse_op"
Parsed == ParseOpCalled /\ pout.kind = "ParsedOp"

\* the tokens of the trimmed input after the verb, when there is a verb
NonVerb == Tail(TokenizeWithMeta(Strip(pin.s)).tokens)

\* the texts of the tokens of toks that satisfy Test, in order
TextsOf(toks, Test(_)) ==
    LET kept == SelectSeq(toks, Test) IN [i \in 1..Len(kept) |-> kept[i].text]

\* s[i] opens a token: is there, from there on, a token that starts with a
\* quote character which does not occur again after it
RECURSIVE UnclosedStandalone(_, _)
UnclosedStandalone(s, i) ==
    LET j == FirstNotIn(s, i, WHITESPACE) IN
    IF j > Len(s) THEN FALSE
    ELSE IF s[j] \in QuoteChars
    THEN \/ \A k \in (j + 1)..Len(s) : s[k] # s[j]
         \/ UnclosedStandalone(s, FirstIn(s, j + 1, {s[j]}) + 1)
    ELSE UnclosedStandalone(s, UnquotedWalk(s, j, <<>>).next)

\* C24: parse_op gives a ParsedOp or a ParseError; a ParseError exactly when the
\* trimmed input is empty or has a standalone quote that is opened and never
\* closed, and the ParseError holds the tokenizer's message and the trimmed
\* input.
ParseOpTotal ==
    ParseOpCalled =>
        LET raw == Strip(pin.s) IN
        /\ pout.kind \in {"ParsedOp", "ParseError"}
        /\ pout.kind = "ParseError" <=> (raw = <<>> \/ UnclosedStandalone(raw, 1))
        /\ pout.raw = raw
        /\ pout.kind = "ParseError" /\ raw # <<>>
              => pout.error = "Tokenization failed: No closing quotation"

ParseOpTotalWitness ==
    /\ ParseOpCalled
    /\ pout.kind = "ParseError"
    /\ Len(Strip(pin.s)) >= 3
    /\ Strip(pin.s)[1] \notin QuoteChars

\* the rule that classifies a token, by the precedence of the classifier
Role(token, cb) ==
    IF Starts(token.text, "@") THEN "selector"
    ELSE IF token.was_quoted THEN "positional"
    ELSE IF cb # "None" /\ IsPositional(cb, token.text) THEN "positional"
    ELSE IF IsKeyValue(token.text) THEN "param"
    ELSE "positional"

\* C25: every non-verb token goes where the first matching rule sends it: '@'
\* first, then standalone-quoted, then is_positional, then key:value (split on
\* the first ':'), else positional.
ClassifierPrecedence ==
    Parsed =>
        LET IsSel(t) == Role(t, pin.cb) = "selector"
            IsPos(t) == Role(t, pin.cb) = "positional"
            IsPar(t) == Role(t, pin.cb) = "param"
        IN
        /\ pout.selectors = TextsOf(NonVerb, IsSel)
        /\ pout.positionals = TextsOf(NonVerb, IsPos)
        /\ DOMAIN pout.params = {Before(text, ":") : text \in SeqToSet(TextsOf(NonVerb, IsPar))}
        /\ \A key \in DOMAIN pout.params :
              \E text \in SeqToSet(TextsOf(NonVerb, IsPar)) :
                  /\ Before(text, ":") = key
                  /\ pout.params[key] = ParseKeyValue(text).value

ClassifierPrecedenceWitness ==
    /\ Parsed
    /\ pin.cb = "columns"
    /\ pout.positionals = << <<"B", ":", "G">> >>
    /\ DOMAIN pout.params = {<<"u">>}
    /\ pout.params[<<"u">>] = <<"a", ":", "b">>

Quoted(t) == t.was_quoted
Unquoted(t) == ~t.was_quoted
QuotedNoAt(t) == t.was_quoted /\ ~Starts(t.text, "@")
UnquotedAt(t) == ~t.was_quoted /\ Starts(t.text, "@")
AnyAt(t) == Starts(t.text, "@")

\* s is t with elements left out
RECURSIVE IsSubsequence(_, _)
IsSubsequence(s, t) ==
    IF s = <<>> THEN TRUE
    ELSE IF t = <<>> THEN FALSE
    ELSE IF Head(s) = Head(t) THEN IsSubsequence(Tail(s), Tail(t))
    ELSE IsSubsequence(s, Tail(t))

IsKeyValueCalled == Called /\ pin.fn = "is_key_value"

\* one to three letters, then digits
LettersThenDigits(s) ==
    LET n == FirstNotIn(s, 1, Letters) - 1 IN
    /\ n \in 1..3
    /\ n < Len(s)
    /\ \A i \in (n + 1)..Len(s) : s[i] \in Digits

OnlyDigits(s) == Len(s) > 0 /\ \A i \in 1..Len(s) : s[i] \in Digits

OnlyLetters(s) == Len(s) > 0 /\ \A i \in 1..Len(s) : s[i] \in Letters

\* left:right with both sides cell references, or both sides row numbers
RangeShape(s) ==
    \E c \in 1..Len(s) :
        /\ s[c] = ":"
        /\ \A i \in 1..(c - 1) : s[i] # ":"
        /\ LET left == SubSeq(s, 1, c - 1)
               right == SubSeq(s, c + 1, Len(s))
           IN \/ LettersThenDigits(left) /\ LettersThenDigits(right)
              \/ OnlyDigits(left) /\ OnlyDigits(right)

\* a range, or a sheet name, '!' and a range
SpreadsheetRange(s) ==
    \/ RangeShape(s)
    \/ \E b \in 1..Len(s) : /\ s[b] = "!"
                            /\ \A i \in 1..(b - 1) : s[i] # "!"
                            /\ RangeShape(SubSeq(s, b + 1, Len(s)))

RECURSIVE LastWins(_, _, _)
LastWins(toks, part, i) ==
    IF i = 0 THEN EmptyParams
    ELSE IF part[i] = "param"
    THEN Put(LastWins(toks, part, i - 1), ParseKeyValue(toks[i].text).key,
             ParseKeyValue(toks[i].text).value)
    ELSE LastWins(toks, part, i - 1)

\* the texts of the tokens of toks that part sends to role, in order
RECURSIVE Part(_, _, _, _)
Part(toks, part, role, i) ==
    IF i = 0 THEN <<>>
    ELSE IF part[i] = role THEN Append(Part(toks, part, role, i - 1), toks[i].text)
    ELSE Part(toks, part, role, i - 1)

\* C28: the non-verb tokens are split three ways, each token in one part:
\* positionals and selectors are their parts in input order, params holds each
\* key of its part once with the value of the key's last occurrence.
NothingDroppedOrDuplicated ==
    Parsed =>
        \E part \in [1..Len(NonVerb) -> {"positional", "selector", "param"}] :
            /\ pout.positionals = Part(NonVerb, part, "positional", Len(NonVerb))
            /\ pout.selectors = Part(NonVerb, part, "selector", Len(NonVerb))
            /\ pout.params = LastWins(NonVerb, part, Len(NonVerb))

NothingDroppedWitness ==
    /\ Parsed
    /\ TextsOf(NonVerb, Unquoted) = << <<"k", ":", "v">>, <<"k", ":", "w">> >>
    /\ pout.params[<<"k">>] = <<"w">>

\* every backslash of s starts an escape (of n, of a backslash, of a quote
\* character), and the quote character q does not occur unescaped
RECURSIVE WellEscaped(_, _)
WellEscaped(s, q) ==
    IF s = <<>> THEN TRUE
    ELSE IF Head(s) = "\\"
    THEN /\ Len(s) >= 2
         /\ s[2] \in {"n", "\\"} \cup QuoteChars
         /\ WellEscaped(Tail(Tail(s)), q)
    ELSE Head(s) # q /\ WellEscaped(Tail(s), q)

\* s with its escapes replaced by what they stand for
RECURSIVE Unescape(_)
Unescape(s) ==
    IF s = <<>> THEN s
    ELSE IF Head(s) = "\\" /\ Len(s) >= 2
    THEN <<IF s[2] = "n" THEN "\n" ELSE s[2]>> \o Unescape(Tail(Tail(s)))
    ELSE <<Head(s)>> \o Unescape(Tail(s))

TokenizeCalled == Called /\ pin.fn = "tokenize"

\* C29: backslash escapes are honoured: a quoted token ends at the matching
\* unescaped quote and holds its content with the escapes replaced; an unquoted
\* token holds a newline for backslash-n.
EscapesHonoured ==
    TokenizeCalled =>
        /\ /\ Len(pin.s) >= 2
           /\ pin.s[1] \in QuoteChars
           /\ pin.s[Len(pin.s)] = pin.s[1]
           /\ WellEscaped(SubSeq(pin.s, 2, Len(pin.s) - 1), pin.s[1])
           => pout = [kind |-> "tokens",
                      tokens |-> <<TokenMeta(Unescape(SubSeq(pin.s, 2, Len(pin.s) - 1)), TRUE)>>]
        /\ /\ pin.s # <<>>
           /\ \A i \in 1..Len(pin.s) : pin.s[i] \notin QuoteChars \cup WHITESPACE
           /\ WellEscaped(pin.s, "")
           => pout = [kind |-> "tokens", tokens |-> <<TokenMeta(Unescape(pin.s), FALSE)>>]

\* ----------------------------------------------------------------- C31
\* C31: a new or open dispatch that returns a failure line because on_new,
\* on_open or on_rebuild_indices raised leaves model, file_path, events, cursor
\* and checkpoints as they were before the dispatch.
CreationFailureAtomic ==
    /\ sess.cmd \in {"new", "open"}
    /\ sess.failed \in {"on_new", "on_open", "on_rebuild_indices"}
    => /\ ~sess.res.ok
       /\ model = sess.pre.model
       /\ file_path = sess.pre.file_path
       /\ events = sess.pre.events
       /\ cursor = sess.pre.cursor
       /\ checkpoints = sess.pre.checkpoints

\* ----------------------------------------------------------------- C32
\* C32: an undo, undo to:<name> or redo dispatch that returns 'Nothing to
\* undo', 'Nothing to redo' or 'No checkpoint named' leaves events, cursor and
\* checkpoints as they were before the dispatch.
NothingToDoLeavesLog ==
    /\ sess.cmd \in {"undo", "redo"}
    /\ sess.res.kind = "line"
    /\ ~sess.res.ok
    /\ sess.res.msg \in {"Nothing to undo", "Nothing to redo", "No checkpoint named"}
    => /\ events = sess.pre.events
       /\ cursor = sess.pre.cursor
       /\ checkpoints = sess.pre.checkpoints

\* ----------------------------------------------------------------- C33
\* C33: after a batch that failed and was rolled back through
\* restore_snapshot, events, cursor and checkpoints are what they were before
\* the batch.
RollbackRestoresLog ==
    batch.restored # <<>> =>
       /\ events = batch.log.events
       /\ cursor = batch.log.cursor
       /\ checkpoints = batch.log.checkpoints

\* ================================================== EventLog invariants
\* ----------------------------------------------------------------- C34
\* C34: for every name in the checkpoint map, the slots events[0..checkpoints[name])
\* are exactly the applied prefix that existed when checkpoint(name) was last
\* called.
CheckpointPrefixStable ==
    \A n \in DOMAIN checkpoints :
        /\ checkpoints[n] <= Len(events)
        /\ SubSeq(events, 1, checkpoints[n]) = marked[n]

\* an append truncated the redo tail exactly at the position of a checkpoint
\* that has a non-empty prefix
CheckpointPrefixStableWitness ==
    \E n \in DOMAIN checkpoints :
        /\ last.op = "append"
        /\ last.pre.cursor < Len(last.pre.events)
        /\ last.pre.cursor = checkpoints[n]
        /\ checkpoints[n] >= 1

\* ----------------------------------------------------------------- C35
\* C35: for every name in the checkpoint map, the slot events[checkpoints[name]]
\* exists and holds the checkpoint sentinel of that name.
LogSelfDescribing ==
    \A n \in DOMAIN checkpoints :
        /\ InRange(events, checkpoints[n])
        /\ GetItem(events, checkpoints[n]) = CheckpointEvent(n)

\* ----------------------------------------------------------------- C36
\* C36: every recorded checkpoint position p satisfies 0 <= p < len(events),
\* and undo_to never reads a slot outside events.
CheckpointPositionsInLog ==
    /\ \A n \in DOMAIN checkpoints : 0 <= checkpoints[n] /\ checkpoints[n] < Len(events)
    /\ last.op = "undo_to" => last.ret.kind # "raise"

\* undo_to ran with the cursor below the position of its checkpoint
CheckpointPositionsInLogWitness ==
    /\ last.op = "undo_to"
    /\ last.name \in DOMAIN checkpoints
    /\ checkpoints[last.name] > last.pre.cursor
    /\ checkpoints[last.name] = Len(events) - 1

\* ----------------------------------------------------------------- C37
\* undo(k), k >= 1, returned m events and was directly followed by redo(m)
UndoThenRedoSame ==
    /\ last.op = "redo"
    /\ prev.op = "undo"
    /\ prev.cnt >= 1
    /\ prev.ret.kind = "list"
    /\ last.cnt = Len(prev.ret.items)

\* C37 as stated: undo(k) returning m events followed by redo(m) returns the
\* same m events in reverse order and brings cursor back to its value before
\* the undo, sentinels or not.
InverseWithCheckpoints ==
    UndoThenRedoSame =>
       /\ last.ret = ListRet(Reverse(prev.ret.items))
       /\ cursor = prev.pre.cursor

\* C37: undo(k) returning m events followed by redo(m) returns the same m
\* events in reverse order; cursor comes back to a position at or below its
\* value before the undo with only sentinels in between (the applied domain
\* events are the same), and to that value exactly when it was 0 or the slot
\* before it held a domain event.
InverseUpToSentinels ==
    UndoThenRedoSame =>
       /\ last.ret = ListRet(Reverse(prev.ret.items))
       /\ events = prev.pre.events
       /\ cursor <= prev.pre.cursor
       /\ \A i \in (cursor + 1)..prev.pre.cursor : IsCheckpoint(events[i])
       /\ Applied(events, cursor) = Applied(prev.pre.events, prev.pre.cursor)
       /\ cursor = prev.pre.cursor <=>
             (prev.pre.cursor = 0 \/ ~IsCheckpoint(events[prev.pre.cursor]))

\* two events were undone across a sentinel and redone, and the cursor stays
\* below a sentinel that was applied before the undo
InverseUpToSentinelsWitness ==
    /\ UndoThenRedoSame
    /\ Len(prev.ret.items) = 2
    /\ \E i \in 1..cursor : IsCheckpoint(events[i])
    /\ cursor < prev.pre.cursor

\* ----------------------------------------------------------------- C38
\* C38: undo, undo_to and redo leave events and the checkpoint map as they
\* were; append and checkpoint leave every slot of events[0..cursor) as it was.
CursorMoveFrame ==
    /\ last.op \in {"undo", "undo_to", "redo"} =>
          /\ events = last.pre.events
          /\ checkpoints = last.pre.checkpoints
    /\ last.op \in {"append", "checkpoint"} =>
          /\ Len(events) >= last.pre.cursor
          /\ \A i \in 1..last.pre.cursor : events[i] = last.pre.events[i]

\* a checkpoint truncated a redo tail above an applied prefix of two slots
CursorMoveFrameWitness ==
    /\ last.op = "checkpoint"
    /\ last.pre.cursor < Len(last.pre.events)
    /\ last.pre.cursor >= 2
    /\ last.pre.events[1] # last.pre.events[2]

\* ----------------------------------------------------------------- C40
\* the loop steps of the call just made: each step of undo, undo_to and redo
\* moves the cursor by one, each step of recent moves its index by one
LoopSteps ==
    CASE last.op \in {"undo", "undo_to"} -> last.pre.cursor - cursor
      [] last.op = "redo" -> cursor - last.pre.cursor
      [] last.op = "recent" ->
            (last.pre.cursor - 1)
               - RecentWalk(last.pre.events, last.pre.cursor - 1, last.cnt, <<>>).idx
      [] OTHER -> 0

\* C40: undo, undo_to, redo and recent finish (without an IndexError) after at
\* most len(events) loop steps, for every count; a count <= 0 gives an empty
\* list and does not move the cursor.
WalksTerminate ==
    /\ last.ret.kind # "raise"
    /\ 0 <= LoopSteps
    /\ LoopSteps <= Len(events)
    /\ last.op \in {"undo", "redo", "recent"} /\ last.cnt <= 0 =>
          /\ last.ret = ListRet(<<>>)
          /\ cursor = last.pre.cursor
          /\ LoopSteps = 0

\* a count larger than the number of applied domain events: undo walked the
\* whole applied prefix, sentinel included, down to cursor 0
WalksTerminateWitness ==
    /\ last.op = "undo"
    /\ last.cnt > Len(last.ret.items)
    /\ LoopSteps = Len(events)
    /\ LoopSteps > Len(last.ret.items)
    /\ Len(last.ret.items) >= 1

\* ================================================ SessionDispatcher, again
\* ----------------------------------------------------------------- C39
\* C39: after a successful new the session has no remembered file_path, so
\* that a save without a path cannot reach on_save with the path of a file
\* opened or saved before.
NewForgetsFilePath ==
    sess.cmd = "new" /\ sess.res.ok => file_path = NONE

====
